---- MODULE Spec2Model ----
(***************************************************************************)
(* Flight Checklist Companion: the checklist editor (checklist_editor.py,  *)
(* _TreeItemRow and ChecklistEditor), the runtime checklist panel          *)
(* (main_window.py, ChecklistWidget) and the ATC template editor           *)
(* (atc_editor.py, ATCEditor).                                             *)
(*                                                                         *)
(* Spec       : the editor outline of one stage under add / remove /       *)
(*              indent / optional-toggle.                                  *)
(* SpecRoots  : Spec started on stages without an optional top-level item.*)
(* SpecChain  : the outline of a stored chain of three levels under        *)
(*              optional-toggle and add.                                   *)
(* SpecRT     : the runtime panel on one aircraft with two stages, under   *)
(*              item toggles, stage selection, next, complete-all, reset.  *)
(* SpecRT2    : the runtime panel on two aircraft, with aircraft selection.*)
(* SpecEdit   : SpecRT2 with the return from a saved edit of the checklist.*)
(* SpecDoc    : the editor dialog under stage selection, add, delete and   *)
(*              rename of stages, text edits and save.                     *)
(* SpecCommit : the editor dialog on one stage under row edits and save.   *)
(* SpecNew    : the creation of an aircraft, with the editor dialog it     *)
(*              opens, its save and its closing without save.              *)
(* SpecLegacy : the editor dialog on documents of bare-string items under  *)
(*              stage selection, text edits and save.                      *)
(* SpecAtc    : the ATC template editor under typing, save and reopening.  *)
(* SpecAtcDel : SpecAtc with the deletion of templates in the ATC panel.   *)
(* SpecSteps  : the optional cascade of the editor outline and the stage   *)
(*              load of the runtime panel, statement by statement, with    *)
(*              the stack of the slots in progress.                        *)
(* FairSteps  : SpecSteps with the GUI thread running the slot in progress.*)
(***************************************************************************)
EXTENDS Integers, Sequences, FiniteSets, TLC

\* Largest number of rows the outline of the edited stage grows to.
MaxRows == 3

\* Largest number of items of a stored stage.
MaxItems == 3

VARIABLES
    rows,       \* editor: item_list, one record per QListWidgetItem + its _TreeItemRow
    edLast,     \* editor: the last button action, its arguments, outcome and the rows before it
    store,      \* ChecklistManager: aircraft -> the stages of its checklist.json
    curAc,      \* ac_cmb.currentText()
    stageNames, \* the entries of stage_cmb
    curIdx,     \* stage_cmb.currentIndex() + 1
    lastStage,  \* _last_stage_name
    memory,     \* _checked_memory
    tree,       \* the items of the QTreeWidget
    nextBtn,    \* next_btn.isEnabled()
    rtLast,     \* runtime: the last user action, its argument and the state before it
    left,       \* runtime: the stage the last action left by a stage switch, and its check marks
    shown,      \* runtime: the (aircraft, stage index) pairs displayed so far
    data,       \* editor: self.data["stages"], the document being edited
    stageList,  \* editor: the texts of the stage_list entries
    stageRow,   \* editor: stage_list.currentRow() + 1
    edIdx,      \* editor: _cur_idx + 1 (0: not yet set)
    dlg,        \* editor: "open", "accepted" once accept() ran, "rejected" once reject() ran
    docLast,    \* editor: the last action in the dialog, its argument and outcome, and
                \* for a save the action before it
    atc,        \* ATCManager: aircraft -> the templates of its atc.json
    atcEd,      \* ATCEditor: aircraft, stage, the three input fields and the dialog state
    atcLast,    \* ATCEditor: the last action and its outcome
    calls       \* the callbacks in progress, the innermost last (<<>>: the event loop waits)

edVars == <<rows, edLast>>
rtVars == <<store, curAc, stageNames, curIdx, lastStage, memory, tree, nextBtn, rtLast, left, shown>>
panelVars == <<curAc, stageNames, curIdx, lastStage, memory, tree, nextBtn, rtLast, left, shown>>
docVars == <<data, stageList, stageRow, edIdx, dlg, docLast>>
atcVars == <<atc, atcEd, atcLast>>
vars == <<rows, edLast, store, curAc, stageNames, curIdx, lastStage, memory, tree, nextBtn,
          rtLast, left, shown, data, stageList, stageRow, edIdx, dlg, docLast,
          atc, atcEd, atcLast, calls>>

Max(a, b) == IF a >= b THEN a ELSE b

\* The sequence f[1], ..., f[n] as a tuple.
RECURSIVE SeqOf(_, _)
SeqOf(f, n) == IF n = 0 THEN <<>> ELSE Append(SeqOf(f, n - 1), f[n])

(***************************************************************************)
(* Editor row: text/level/optional are the item's Qt.UserRole dict,        *)
(* checked/enabled are the row's "optional" QCheckBox (self.opt).          *)
(***************************************************************************)
EdTexts == {"a"}

EmptyStore == <<>>

NewRow(d) ==
    [text |-> d.text, level |-> d.level, optional |-> d.optional,
     checked |-> d.optional, enabled |-> TRUE]

\* Nearest row before idx whose level is below lvl (0: none).
ParentBelow(rs, idx, lvl) ==
    LET c == {i \in 1..(idx - 1) : rs[i].level < lvl}
    IN  IF c = {} THEN 0 ELSE CHOOSE i \in c : \A j \in c : j <= i

\* The rows after idx up to the first one whose level is <= lvl.
DescendantRun(rs, idx, lvl) ==
    {i \in (idx + 1)..Len(rs) : \A j \in (idx + 1)..i : rs[j].level > lvl}

RECURSIVE SetChecked(_, _, _)
RECURSIVE CascadeFrom(_, _, _, _)

\* The same loop without "row.opt.setEnabled(not state)".
RECURSIVE CascadeFromNoLock(_, _, _, _)
CascadeFromNoLock(rs, idx, i, v) ==
    IF i > Len(rs) \/ rs[i].level <= rs[idx].level
    THEN rs
    ELSE CascadeFromNoLock(SetChecked(rs, i, v), idx, i + 1, v)

\* The same loop with setChecked only when the state is set.
RECURSIVE CascadeFromSetOnly(_, _, _, _)
CascadeFromSetOnly(rs, idx, i, v) ==
    IF i > Len(rs) \/ rs[i].level <= rs[idx].level
    THEN rs
    ELSE CascadeFromSetOnly([(IF v THEN SetChecked(rs, i, v) ELSE rs) EXCEPT ![i].enabled = ~v],
                            idx, i + 1, v)

\* _cascade_optional's loop from row i on: every row of idx's descendant run
\* gets setChecked(bool(state)) and setEnabled(not state).
CascadeFrom(rs, idx, i, v) ==
    IF i > Len(rs) \/ rs[i].level <= rs[idx].level
    THEN rs
    ELSE CascadeFrom([SetChecked(rs, i, v) EXCEPT ![i].enabled = ~v], idx, i + 1, v)

\* opt.setChecked(v): a change of state emits stateChanged, which runs
\* _cascade_optional on that row before setChecked returns.
SetChecked(rs, i, v) ==
    IF rs[i].checked = v
    THEN rs
    ELSE CascadeFrom([rs EXCEPT ![i].checked = v], i, i + 1, v)

SyncOptionalWithParent(rs, idx) ==
    LET p == ParentBelow(rs, idx, rs[idx].level)
    IN  IF p = 0
        THEN [rs EXCEPT ![idx].enabled = TRUE]
        ELSE IF rs[p].checked
             THEN [SetChecked(rs, idx, TRUE) EXCEPT ![idx].enabled = FALSE]
             ELSE [rs EXCEPT ![idx].enabled = TRUE]

\* ChecklistEditor._stage_changed: one row per stored item, then the sync pass.
RECURSIVE SyncAll(_, _)
SyncAll(rs, i) ==
    IF i > Len(rs) THEN rs ELSE SyncAll(SyncOptionalWithParent(rs, i), i + 1)

LoadRows(items) == SyncAll(SeqOf([i \in 1..Len(items) |-> NewRow(items[i])], Len(items)), 1)

InsertAt(s, k, e) == SubSeq(s, 1, k) \o <<e>> \o SubSeq(s, k + 1, Len(s))
RemoveAt(s, k) == SubSeq(s, 1, k - 1) \o SubSeq(s, k + 1, Len(s))

\* _add_after without the look at the next row.
AddAfterRowsSameLevel(rs, idx) ==
    InsertAt(rs, idx, NewRow([text |-> "", level |-> rs[idx].level, optional |-> rs[idx].optional]))

AddAfterRows(rs, idx) ==
    LET cur_level == rs[idx].level
        cur_optional == rs[idx].optional
        new_level == IF idx + 1 <= Len(rs) /\ rs[idx + 1].level > cur_level
                     THEN rs[idx + 1].level ELSE cur_level
    IN  InsertAt(rs, idx, NewRow([text |-> "", level |-> new_level, optional |-> cur_optional]))

RECURSIVE RemoveShift(_, _, _)
RemoveShift(rs, i, last) ==
    IF i > last
    THEN rs
    ELSE LET rs1 == [rs EXCEPT ![i].level = Max(0, rs[i].level - 1), ![i].enabled = TRUE]
         IN  RemoveShift(SyncOptionalWithParent(rs1, i), i + 1, last)

\* _remove without its "only one row left" guard.
RemoveRowsUnguarded(rs, idx) ==
    LET n == Cardinality(DescendantRun(rs, idx, rs[idx].level))
    IN  RemoveAt(RemoveShift(rs, idx + 1, idx + n), idx)

\* _remove without the loop over the descendants.
RemoveRowsNoShift(rs, idx) == IF Len(rs) = 1 THEN rs ELSE RemoveAt(rs, idx)

RemoveRows(rs, idx) ==
    IF Len(rs) = 1
    THEN rs
    ELSE LET n == Cardinality(DescendantRun(rs, idx, rs[idx].level))
         IN  RemoveAt(RemoveShift(rs, idx + 1, idx + n), idx)

\* The same without the look at the new parent.
IndentPreRootOnly(rs, idx, new_level) ==
    IF new_level = 0 THEN SetChecked(rs, idx, FALSE) ELSE rs

\* The same without the "new_level == 0" branches.
IndentPreParentOnly(rs, idx, new_level) ==
    IF new_level = 0
    THEN rs
    ELSE LET p == ParentBelow(rs, idx, new_level)
         IN  IF p # 0 /\ ~rs[p].checked THEN SetChecked(rs, idx, FALSE) ELSE rs

\* The part of _indent that runs before the validation (lines 152-167).
IndentPre(rs, idx, new_level) ==
    IF new_level = 0
    THEN SetChecked(rs, idx, FALSE)
    ELSE LET p == ParentBelow(rs, idx, new_level)
         IN  IF p # 0 /\ ~rs[p].checked THEN SetChecked(rs, idx, FALSE) ELSE rs

\* _indent's validation without the predecessor rule.
IndentOutcomeNoJumpRule(rs, idx, delta) ==
    LET new_level == rs[idx].level + delta
    IN  IF new_level < 0 THEN "negative"
        ELSE IF idx = 1 /\ new_level # 0 THEN "first"
        ELSE "ok"

\* _indent's validation without the first-row rule.
IndentOutcomeNoFirstRule(rs, idx, delta) ==
    LET new_level == rs[idx].level + delta
        prev_level == IF idx > 1 THEN rs[idx - 1].level ELSE 0
    IN  IF new_level < 0 THEN "negative"
        ELSE IF new_level > prev_level + 1 THEN "jump"
        ELSE "ok"

IndentOutcome(rs, idx, delta) ==
    LET new_level == rs[idx].level + delta
        prev_level == IF idx > 1 THEN rs[idx - 1].level ELSE 0
    IN  IF new_level < 0 THEN "negative"
        ELSE IF idx = 1 /\ new_level # 0 THEN "first"
        ELSE IF new_level > prev_level + 1 THEN "jump"
        ELSE "ok"

\* _indent without the loop over the descendants.
IndentRowsAlone(rs, idx, delta) ==
    IF IndentOutcome(rs, idx, delta) # "ok"
    THEN IndentPre(rs, idx, rs[idx].level + delta)
    ELSE SyncOptionalWithParent(
             [IndentPre(rs, idx, rs[idx].level + delta) EXCEPT
                 ![idx].level = @ + delta,
                 ![idx].optional = IF rs[idx].level + delta = 0 THEN FALSE ELSE @],
             idx)

IndentRows(rs, idx, delta) ==
    LET cur_level == rs[idx].level
        new_level == cur_level + delta
        rs1 == IndentPre(rs, idx, new_level)
        run == DescendantRun(rs1, idx, cur_level)
        rs2 == SeqOf([i \in 1..Len(rs1) |->
                  IF i = idx
                  THEN [rs1[i] EXCEPT !.level = new_level,
                                      !.optional = IF new_level = 0 THEN FALSE ELSE @]
                  ELSE IF i \in run
                       THEN [rs1[i] EXCEPT !.level = Max(0, @ + delta)]
                       ELSE rs1[i]], Len(rs1))
    IN  IF IndentOutcome(rs, idx, delta) # "ok"
        THEN rs1
        ELSE SyncOptionalWithParent(rs2, idx)

(***************************************************************************)
(* Editor actions: one per button of a row.                                *)
(***************************************************************************)
LevelSeqs(n) ==
    {l \in [1..n -> 0..(n - 1)] : l[1] = 0 /\ \A i \in 2..n : l[i] <= l[i - 1] + 1}

StoredItems ==
    UNION {{SeqOf([i \in 1..n |-> [text |-> t[i], level |-> l[i], optional |-> o[i]]], n) :
              t \in [1..n -> EdTexts], l \in LevelSeqs(n), o \in [1..n -> BOOLEAN]} :
           n \in 1..MaxRows}

NoOp == [op |-> "load", idx |-> 0, delta |-> 0, outcome |-> "ok", before |-> <<>>]

\* While the editor dialog is studied the runtime panel is left aside.
RuntimeIdle ==
    /\ store = EmptyStore /\ curAc = "" /\ stageNames = <<>> /\ curIdx = 0
    /\ lastStage = "" /\ memory = <<>> /\ tree = <<>> /\ nextBtn = FALSE
    /\ rtLast = <<>> /\ left = <<>> /\ shown = {}

\* While one outline is studied the stage list of the dialog is left aside.
DocIdle ==
    /\ data = <<>> /\ stageList = <<>> /\ stageRow = 0 /\ edIdx = 0
    /\ dlg = "" /\ docLast = <<>>

\* ... and so is the ATC template editor.
AtcIdle == atc = <<>> /\ atcEd = <<>> /\ atcLast = <<>>

InitEditor ==
    /\ calls = <<>>
    /\ \E items \in StoredItems : rows = LoadRows(items)
    /\ edLast = NoOp
    /\ RuntimeIdle
    /\ DocIdle
    /\ AtcIdle

AddAfter(idx) ==
    /\ Len(rows) < MaxRows
    /\ rows' = AddAfterRows(rows, idx)
    /\ edLast' = [op |-> "add", idx |-> idx, delta |-> 0, outcome |-> "ok", before |-> rows]
    /\ UNCHANGED <<rtVars, docVars, atcVars, calls>>

Remove(idx) ==
    /\ rows' = RemoveRows(rows, idx)
    /\ edLast' = [op |-> "remove", idx |-> idx, delta |-> 0,
                  outcome |-> IF Len(rows) = 1 THEN "sole" ELSE "ok", before |-> rows]
    /\ UNCHANGED <<rtVars, docVars, atcVars, calls>>

Indent(idx, delta) ==
    /\ rows' = IndentRows(rows, idx, delta)
    /\ edLast' = [op |-> "indent", idx |-> idx, delta |-> delta,
                  outcome |-> IndentOutcome(rows, idx, delta), before |-> rows]
    /\ UNCHANGED <<rtVars, docVars, atcVars, calls>>

\* The user clicks the "optional" check box of a row; a disabled box takes no click.
ToggleOptional(idx) ==
    /\ rows[idx].enabled
    /\ rows' = SetChecked(rows, idx, ~rows[idx].checked)
    /\ edLast' = [op |-> "optional", idx |-> idx, delta |-> 0, outcome |-> "ok", before |-> rows]
    /\ UNCHANGED <<rtVars, docVars, atcVars, calls>>

NextEditor ==
    \E idx \in 1..Len(rows) :
        \/ AddAfter(idx)
        \/ Remove(idx)
        \/ \E delta \in {-1, 1} : Indent(idx, delta)
        \/ ToggleOptional(idx)

Spec == InitEditor /\ [][NextEditor]_vars

(***************************************************************************)
(* The editor outline of a stored stage none of whose level-0 items is     *)
(* optional.                                                               *)
(***************************************************************************)
InitRoots ==
    /\ calls = <<>>
    /\ \E items \in {it \in StoredItems : \A i \in 1..Len(it) : it[i].level = 0 => ~it[i].optional} :
          rows = LoadRows(items)
    /\ edLast = NoOp
    /\ RuntimeIdle
    /\ DocIdle
    /\ AtcIdle

SpecRoots == InitRoots /\ [][NextEditor]_vars

(***************************************************************************)
(* The editor on a stored chain of three rows (levels 0, 1, 2), under the  *)
(* optional toggle and an insert that may add a fourth row.                *)
(***************************************************************************)
\* Largest number of rows the outline of a chain grows to.
MaxChainRows == 4

StoredChains ==
    {SeqOf([i \in 1..3 |-> [text |-> "a", level |-> i - 1, optional |-> o[i]]], 3) :
        o \in [1..3 -> BOOLEAN]}

InitChain ==
    /\ calls = <<>>
    /\ \E items \in StoredChains : rows = LoadRows(items)
    /\ edLast = NoOp
    /\ RuntimeIdle
    /\ DocIdle
    /\ AtcIdle

AddAfterChain(idx) ==
    /\ Len(rows) < MaxChainRows
    /\ rows' = AddAfterRows(rows, idx)
    /\ edLast' = [op |-> "add", idx |-> idx, delta |-> 0, outcome |-> "ok", before |-> rows]
    /\ UNCHANGED <<rtVars, docVars, atcVars, calls>>

NextChain ==
    \E idx \in 1..Len(rows) :
        \/ AddAfterChain(idx)
        \/ ToggleOptional(idx)

SpecChain == InitChain /\ [][NextChain]_vars

(***************************************************************************)
(* Runtime checklist panel (ChecklistWidget).                              *)
(*                                                                         *)
(* A world w is the panel's state:                                         *)
(*   ac     ac_cmb.currentText()                                           *)
(*   stages the entries of stage_cmb                                       *)
(*   idx    stage_cmb.currentIndex() + 1 (0: no current entry)             *)
(*   last   _last_stage_name ("": None)                                    *)
(*   mem    _checked_memory, a dict of dicts of sets of texts              *)
(*   tree   the QTreeWidget's items in insertion order; parent is the      *)
(*          index of the parent item (0: the invisible root)               *)
(*   next   next_btn.isEnabled()                                           *)
(*   store  what ChecklistManager.read returns for each aircraft           *)
(* color is the item's foreground role; it decides whether setForeground   *)
(* changes the item and so emits itemChanged.                              *)
(***************************************************************************)
EmptyDict == [x \in {} |-> {}]

RECURSIVE SortedSeq(_)
SortedSeq(S) ==
    IF S = {} THEN <<>>
    ELSE LET m == CHOOSE x \in S : \A y \in S : x <= y
         IN  <<m>> \o SortedSeq(S \ {m})

ChildSeq(t, p) == SortedSeq({i \in 1..Len(t) : t[i].parent = p})

CheckedTexts(t) == {t[i].text : i \in {j \in 1..Len(t) : t[j].checked}}

CurStage(w) == IF w.idx >= 1 /\ w.idx <= Len(w.stages) THEN w.stages[w.idx] ELSE ""

MemGet(mem, ac, stage) ==
    IF ac \in DOMAIN mem /\ stage \in DOMAIN mem[ac] THEN mem[ac][stage] ELSE {}

MemPut(mem, ac, stage, texts) ==
    LET inner == IF ac \in DOMAIN mem THEN mem[ac] ELSE EmptyDict
    IN  (ac :> ((stage :> texts) @@ inner)) @@ mem

\* _update_memory_check_state
UpdateMemoryCheckState(w) ==
    IF w.ac = "" \/ CurStage(w) = ""
    THEN w
    ELSE [w EXCEPT !.mem = MemPut(w.mem, w.ac, CurStage(w), CheckedTexts(w.tree))]

\* _save_current_stage_state(stage_name): "stage_name or self._last_stage_name"
SaveCurrentStageState(w, stage_name) ==
    LET stage == IF stage_name # "" THEN stage_name ELSE w.last
    IN  IF w.ac = "" \/ stage = ""
        THEN w
        ELSE [w EXCEPT !.mem = MemPut(w.mem, w.ac, stage, CheckedTexts(w.tree))]

\* _update_color's choice of brush for an item that is user-checkable.
ColorOf(n) == IF n.optional THEN (IF n.checked THEN "black" ELSE "dim") ELSE "black"

\* _update_color while the tree's signals are blocked.
RECURSIVE UpdateColorQuiet(_, _)
RECURSIVE UpdateColorQuietKids(_, _, _)
UpdateColorQuiet(t, i) ==
    IF ~t[i].checkable
    THEN [t EXCEPT ![i].color = "gray"]
    ELSE UpdateColorQuietKids([t EXCEPT ![i].color = ColorOf(t[i])], ChildSeq(t, i), 1)
UpdateColorQuietKids(t, ks, k) ==
    IF k > Len(ks) THEN t ELSE UpdateColorQuietKids(UpdateColorQuiet(t, ks[k]), ks, k + 1)

\* _on_item_changed's "while node: _update_color(node); node = node.parent()"
RECURSIVE UpdateColorUp(_, _)
UpdateColorUp(t, i) ==
    IF i = 0 THEN t ELSE UpdateColorUp(UpdateColorQuiet(t, i), t[i].parent)

\* lock_children of _on_item_changed
RECURSIVE LockChildren(_, _)
RECURSIVE LockChildrenKids(_, _, _, _)
LockChildren(t, p) == LockChildrenKids(t, p, ChildSeq(t, p), 1)
LockChildrenKids(t, p, ks, k) ==
    IF k > Len(ks)
    THEN t
    ELSE LET c == ks[k]
             t1 == IF t[p].optional /\ ~t[p].checked
                   THEN [t EXCEPT ![c].checked = FALSE, ![c].checkable = FALSE,
                                  ![c].color = "gray"]
                   ELSE UpdateColorQuiet([t EXCEPT ![c].checkable = TRUE], c)
         IN  LockChildrenKids(LockChildren(t1, c), p, ks, k + 1)

\* check_node of _update_next_btn when the tree's signals are blocked:
\* the pair of the tree it leaves and its result.
RECURSIVE CheckNodeQuiet(_, _)
RECURSIVE CheckNodeQuietKids(_, _, _, _)
RECURSIVE CheckNodeQuietRest(_, _, _, _)
\* "for i in range(node.childCount()): ok &= check_node(node.child(i))"
CheckNodeQuietKids(t, ks, k, ok) ==
    IF k > Len(ks)
    THEN [tree |-> t, ok |-> ok]
    ELSE CheckNodeQuietRest(CheckNodeQuiet(t, ks[k]), ks, k, ok)
CheckNodeQuietRest(r, ks, k, ok) == CheckNodeQuietKids(r.tree, ks, k + 1, ok /\ r.ok)

\* A check_node that lets an unchecked non-optional node pass.
CheckNodeQuietSelfLax(r, n) ==
    LET t1 == r.tree
        par == t1[n].parent
    IN  IF t1[n].optional /\ par # 0 /\ t1[par].optional /\ ~t1[par].checked /\ t1[n].checked
        THEN [tree |-> [t1 EXCEPT ![n].checked = FALSE], ok |-> r.ok]
        ELSE [tree |-> t1, ok |-> r.ok]

\* The part of check_node after the loop over the children, r being what
\* the loop left.
CheckNodeQuietSelf(r, n) ==
    LET t1 == r.tree
        par == t1[n].parent
    IN  IF t1[n].optional
        THEN IF par # 0 /\ t1[par].optional /\ ~t1[par].checked /\ t1[n].checked
             THEN [tree |-> [t1 EXCEPT ![n].checked = FALSE], ok |-> r.ok]
             ELSE [tree |-> t1, ok |-> r.ok]
        ELSE [tree |-> t1, ok |-> r.ok /\ t1[n].checked]

CheckNodeQuiet(t, n) == CheckNodeQuietSelf(CheckNodeQuietKids(t, ChildSeq(t, n), 1, TRUE), n)

\* "self.next_btn.setEnabled(all_ok)"
SetEnabledQuiet(w, r) == [w EXCEPT !.tree = r.tree, !.next = r.ok]

UpdateNextBtnQuiet(w) ==
    SetEnabledQuiet(w, CheckNodeQuietKids(w.tree, ChildSeq(w.tree, 0), 1, TRUE))

\* _on_item_changed without lock_children and _update_next_btn.
OnItemChangedColorsOnly(w, i) ==
    UpdateMemoryCheckState([w EXCEPT !.tree = UpdateColorQuiet(UpdateColorUp(w.tree, i), i)])

\* _on_item_changed(itm): runs with the tree's signals blocked.
OnItemChanged(w, i) ==
    LET t1 == UpdateColorQuiet(UpdateColorUp(w.tree, i), i)
        t2 == LockChildren(t1, i)
    IN  UpdateMemoryCheckState(UpdateNextBtnQuiet([w EXCEPT !.tree = t2]))

\* item.setCheckState / item.setForeground with the tree's signals live: a
\* change of the value emits itemChanged, which runs _on_item_changed.
SetCheckStateLoud(w, i, v) ==
    IF w.tree[i].checked = v THEN w ELSE OnItemChanged([w EXCEPT !.tree[i].checked = v], i)

SetForegroundLoud(w, i, c) ==
    IF w.tree[i].color = c THEN w ELSE OnItemChanged([w EXCEPT !.tree[i].color = c], i)

\* check_node of _update_next_btn with the tree's signals live.
RECURSIVE CheckNodeLoud(_, _)
RECURSIVE CheckNodeLoudKids(_, _, _, _)
RECURSIVE CheckNodeLoudRest(_, _, _, _)
CheckNodeLoudKids(w, ks, k, ok) ==
    IF k > Len(ks)
    THEN [w |-> w, ok |-> ok]
    ELSE CheckNodeLoudRest(CheckNodeLoud(w, ks[k]), ks, k, ok)
CheckNodeLoudRest(r, ks, k, ok) == CheckNodeLoudKids(r.w, ks, k + 1, ok /\ r.ok)

CheckNodeLoudSelf(r, n) ==
    LET t1 == r.w.tree
        par == t1[n].parent
    IN  IF t1[n].optional
        THEN IF par # 0 /\ t1[par].optional /\ ~t1[par].checked /\ t1[n].checked
             THEN [w |-> SetCheckStateLoud(r.w, n, FALSE), ok |-> r.ok]
             ELSE [w |-> r.w, ok |-> r.ok]
        ELSE [w |-> r.w, ok |-> r.ok /\ t1[n].checked]

CheckNodeLoud(w, n) == CheckNodeLoudSelf(CheckNodeLoudKids(w, ChildSeq(w.tree, n), 1, TRUE), n)

SetEnabledLoud(r) == [r.w EXCEPT !.next = r.ok]

UpdateNextBtn(w) == SetEnabledLoud(CheckNodeLoudKids(w, ChildSeq(w.tree, 0), 1, TRUE))

\* apply_gray_for_optional_parents of _build_tree
RECURSIVE ApplyGray(_, _)
RECURSIVE ApplyGrayKids(_, _, _)
ApplyGray(w, i) ==
    LET c == IF w.tree[i].optional /\ ~w.tree[i].checked THEN "gray" ELSE "black"
    IN  ApplyGrayKids(SetForegroundLoud(w, i, c), ChildSeq(w.tree, i), 1)
ApplyGrayKids(w, ks, k) ==
    IF k > Len(ks) THEN w ELSE ApplyGrayKids(ApplyGray(w, ks[k]), ks, k + 1)

\* _update_color as _build_tree calls it, with the tree's signals live.
RECURSIVE UpdateColorLoud(_, _)
RECURSIVE UpdateColorLoudKids(_, _, _)
UpdateColorLoud(w, i) ==
    IF ~w.tree[i].checkable
    THEN SetForegroundLoud(w, i, "gray")
    ELSE UpdateColorLoudKids(SetForegroundLoud(w, i, ColorOf(w.tree[i])),
                             ChildSeq(w.tree, i), 1)
UpdateColorLoudKids(w, ks, k) ==
    IF k > Len(ks) THEN w ELSE UpdateColorLoudKids(UpdateColorLoud(w, ks[k]), ks, k + 1)

\* The item loop of _build_tree: parents maps a level to the last item that
\* set parents[level + 1]; a level without entry hangs under the root.
RECURSIVE BuildNodes(_, _, _, _, _)
BuildNodes(items, mem_checked, i, parents, acc) ==
    IF i > Len(items)
    THEN acc
    ELSE LET it == items[i]
             par == IF it.level \in DOMAIN parents THEN parents[it.level] ELSE 0
             node == [text |-> it.text, optional |-> it.optional,
                      checked |-> it.text \in mem_checked, checkable |-> TRUE,
                      color |-> "none", parent |-> par]
         IN  BuildNodes(items, mem_checked, i + 1,
                        ((it.level + 1) :> i) @@ parents, Append(acc, node))

\* The two loops over the top-level items that end _build_tree.
ApplyGrayTop(w) == ApplyGrayKids(w, ChildSeq(w.tree, 0), 1)

UpdateColorTop(w) == UpdateColorLoudKids(w, ChildSeq(w.tree, 0), 1)

BuildTree(w, items) ==
    LET t0 == BuildNodes(items, MemGet(w.mem, w.ac, CurStage(w)), 1, (0 :> 0), <<>>)
    IN  UpdateColorTop(ApplyGrayTop(UpdateNextBtn([w EXCEPT !.tree = t0])))

\* _populate_empty
PopulateEmpty(w) == [w EXCEPT !.stages = <<>>, !.idx = 0, !.tree = <<>>, !.next = FALSE]

\* _stage_changed(idx); w.idx is the combo box's index, idx its argument + 1.
\* "self._last_stage_name = self.stage_cmb.currentText()"
SetLastStageName(w) == [w EXCEPT !.last = CurStage(w)]

\* _stage_changed after the snapshot: read the document, build the tree.
StageLoad(w, idx) ==
    IF idx < 1 \/ idx > Len(w.store[w.ac])
    THEN PopulateEmpty(w)
    ELSE SetLastStageName(BuildTree(w, w.store[w.ac][idx].items))

StageChanged(w, idx) == StageLoad(SaveCurrentStageState(w, w.last), idx)

\* _ac_changed(ac), entered with ac_cmb already showing ac.  stage_cmb has a
\* placeholder text, so refilling it leaves no current entry and
\* setCurrentIndex(0) emits currentIndexChanged before the explicit call.
StageNamesIn(doc) == SeqOf([k \in 1..Len(doc) |-> doc[k].name], Len(doc))

FillStages(w) == [w EXCEPT !.stages = StageNamesIn(w.store[w.ac]), !.idx = 0]

SelectFirstStage(w) ==
    IF Len(w.stages) > 0
    THEN StageChanged(StageChanged([w EXCEPT !.idx = 1], 1), 1)
    ELSE PopulateEmpty(w)

AcChanged(w) ==
    SetLastStageName(SelectFirstStage(FillStages(
        UpdateMemoryCheckState(SaveCurrentStageState(w, "")))))

\* _reset_checks after the user confirmed.  The document is written back
\* with "checked": False added to every item.
ResetData(doc) ==
    SeqOf([k \in 1..Len(doc) |->
             [name |-> doc[k].name,
              items |-> SeqOf([j \in 1..Len(doc[k].items) |->
                                 [text |-> doc[k].items[j].text,
                                  level |-> doc[k].items[j].level,
                                  optional |-> doc[k].items[j].optional,
                                  checked |-> FALSE]], Len(doc[k].items))]], Len(doc))

\* A reset that writes the store and clears the tree but keeps the memory.
ResetStoreKeepMemory(w) ==
    [w EXCEPT !.store = (w.ac :> ResetData(w.store[w.ac])) @@ w.store, !.tree = <<>>]

\* mgr.write(ac, data), _checked_memory[ac].clear(), tree.clear()
ResetStore(w) ==
    [w EXCEPT !.store = (w.ac :> ResetData(w.store[w.ac])) @@ w.store,
              !.mem = IF w.ac \in DOMAIN w.mem THEN (w.ac :> EmptyDict) @@ w.mem ELSE w.mem,
              !.tree = <<>>]

\* stage_cmb.setCurrentIndex(0): emits currentIndexChanged unless the first
\* stage is the current one already.
ResetToFirst(w) ==
    IF Len(w.stages) > 0 /\ w.idx # 1 THEN StageChanged([w EXCEPT !.idx = 1], 1) ELSE w

\* "items = data['stages'][cur_idx]['items']", then _build_tree(items)
ResetRebuild(w) ==
    IF w.idx < 1 \/ w.idx > Len(w.store[w.ac])
    THEN PopulateEmpty(w)
    ELSE BuildTree(w, w.store[w.ac][w.idx].items)

ResetChecks(w) == ResetRebuild(SetLastStageName(ResetToFirst(ResetStore(w))))

\* A complete-all that passes over the items that are not user-checkable.
CompleteChecksUnlockedOnly(w) ==
    LET t1 == SeqOf([i \in 1..Len(w.tree) |->
                  IF w.tree[i].checkable
                  THEN [w.tree[i] EXCEPT !.checked = TRUE,
                                         !.color = ColorOf([w.tree[i] EXCEPT !.checked = TRUE])]
                  ELSE w.tree[i]],
                  Len(w.tree))
    IN  UpdateNextBtn([w EXCEPT !.tree = t1])

\* _complete_checks: check_all with the signals blocked, then _update_next_btn.
CompleteChecks(w) ==
    LET t1 == SeqOf([i \in 1..Len(w.tree) |->
                  [w.tree[i] EXCEPT !.checked = TRUE, !.checkable = TRUE,
                                    !.color = ColorOf([w.tree[i] EXCEPT !.checked = TRUE])]],
                  Len(w.tree))
    IN  UpdateNextBtn([w EXCEPT !.tree = t1])

\* The user clicks the check box of item i: the view flips its check state.
ToggleItem(w, i) == SetCheckStateLoud(w, i, ~w.tree[i].checked)

\* A _next_stage that wraps around from the last stage to the first.
NextStageOpWrap(w) ==
    IF w.idx < Len(w.stages)
    THEN StageChanged([w EXCEPT !.idx = w.idx + 1], w.idx + 1)
    ELSE StageChanged([w EXCEPT !.idx = 1], 1)

\* _next_stage
NextStageOp(w) ==
    IF w.idx < Len(w.stages)
    THEN StageChanged([w EXCEPT !.idx = w.idx + 1], w.idx + 1)
    ELSE w

\* The foreground role is read only while _build_tree runs on fresh items;
\* between two user actions it is left out of the state.
Settle(w) ==
    [w EXCEPT !.tree = SeqOf([i \in 1..Len(w.tree) |-> [w.tree[i] EXCEPT !.color = "none"]],
                             Len(w.tree))]

(***************************************************************************)
(* Runtime state and actions.                                              *)
(***************************************************************************)
World ==
    [ac |-> curAc, stages |-> stageNames, idx |-> curIdx, last |-> lastStage,
     mem |-> memory, tree |-> tree, next |-> nextBtn, store |-> store]

CheckVec(t) == SeqOf([i \in 1..Len(t) |-> t[i].checked], Len(t))

NoLeft == [ac |-> "", idx |-> 0, checked |-> <<>>]

\* The variables after a handler that left world w.
BecomesSettled(w, op, arg) ==
    /\ curAc' = w.ac
    /\ stageNames' = w.stages
    /\ curIdx' = w.idx
    /\ lastStage' = w.last
    /\ memory' = w.mem
    /\ tree' = w.tree
    /\ nextBtn' = w.next
    /\ store' = w.store
    /\ rtLast' = [op |-> op, arg |-> arg]
    /\ shown' = shown \cup {<<w.ac, w.idx>>}
    /\ UNCHANGED <<edVars, docVars, atcVars, calls>>

Becomes(w0, op, arg) == BecomesSettled(Settle(w0), op, arg)

Toggle(i) ==
    /\ tree[i].checkable
    /\ Becomes(ToggleItem(World, i), "toggle", i)
    /\ left' = NoLeft

SelectStage(j) ==
    /\ j # curIdx
    /\ Becomes(StageChanged([World EXCEPT !.idx = j], j), "stage", j)
    /\ left' = [ac |-> curAc, idx |-> curIdx, checked |-> CheckVec(tree)]

\* next_btn takes a click only while it is enabled.
NextStage ==
    /\ nextBtn
    /\ Becomes(NextStageOp(World), "next", 0)
    /\ left' = IF curIdx < Len(stageNames)
               THEN [ac |-> curAc, idx |-> curIdx, checked |-> CheckVec(tree)]
               ELSE NoLeft

SelectAircraft(a) ==
    /\ a # curAc
    /\ Becomes(AcChanged([World EXCEPT !.ac = a]), "aircraft", a)
    /\ left' = NoLeft

CompleteAll ==
    /\ Becomes(CompleteChecks(World), "complete", 0)
    /\ left' = NoLeft

Reset ==
    /\ Becomes(ResetChecks(World), "reset", 0)
    /\ left' = NoLeft

NextRuntime ==
    \/ \E i \in 1..Len(tree) : Toggle(i)
    \/ \E j \in 1..Len(stageNames) : SelectStage(j)
    \/ NextStage
    \/ CompleteAll
    \/ Reset

RtTexts == {"a", "b"}

\* Stored stages of n items.  The first item is at level 0 and reads "a":
\* a first item at a deeper level hangs under the root all the same, and
\* nothing in the panel tells one text from another.
ItemSeqs(n) ==
    {SeqOf([i \in 1..n |-> [text |-> t[i], level |-> l[i], optional |-> o[i]]], n) :
        t \in {f \in [1..n -> RtTexts] : f[1] = "a"},
        l \in {f \in [1..n -> 0..(n - 1)] : f[1] = 0},
        o \in [1..n -> BOOLEAN]}

AllItemSeqs == UNION {ItemSeqs(n) : n \in 1..MaxItems}

Plain == <<[text |-> "a", level |-> 0, optional |-> FALSE]>>

\* One aircraft with two stages: the first with any items, the second plain.
Stores ==
    {("X" :> <<[name |-> "s1", items |-> i1], [name |-> "s2", items |-> Plain]>>) :
        i1 \in AllItemSeqs}

\* Two aircraft whose first stages bear the same name; the second aircraft
\* has a single item.
SmallItemSeqs == UNION {ItemSeqs(n) : n \in 1..(MaxItems - 1)}

Stores2 ==
    {("X" :> <<[name |-> "s1", items |-> i1], [name |-> "s2", items |-> Plain]>>) @@
     ("Y" :> <<[name |-> "s1", items |-> i2]>>) : i1 \in SmallItemSeqs, i2 \in ItemSeqs(1)}

\* ChecklistWidget.__init__ ends in _refresh_ac(first=True): ac_cmb is filled
\* with list_aircraft(), setCurrentIndex(0) emits currentTextChanged, then
\* _ac_changed and _stage_changed are called.
FreshWorld(st) ==
    [ac |-> "X", stages |-> <<>>, idx |-> 0, last |-> "", mem |-> EmptyDict,
     tree |-> <<>>, next |-> TRUE, store |-> st]

\* "self._stage_changed(self.stage_cmb.currentIndex())"
StartupStage(w) == Settle(StageChanged(w, w.idx))

Startup(st) == StartupStage(AcChanged(AcChanged(FreshWorld(st))))

EditorIdle == rows = <<>> /\ edLast = <<>> /\ DocIdle /\ AtcIdle

StartsAs(w) ==
    /\ store = w.store /\ curAc = w.ac /\ stageNames = w.stages /\ curIdx = w.idx
    /\ lastStage = w.last /\ memory = w.mem /\ tree = w.tree /\ nextBtn = w.next
    /\ shown = {<<w.ac, w.idx>>}

InitRuntimeOn(stores) ==
    /\ calls = <<>>
    /\ \E st \in stores : StartsAs(Startup(st))
    /\ rtLast = [op |-> "start", arg |-> 0]
    /\ left = NoLeft
    /\ EditorIdle

InitRuntime == InitRuntimeOn(Stores)

SpecRT == InitRuntime /\ [][NextRuntime]_vars

InitRuntime2 == InitRuntimeOn(Stores2)

NextRuntime2 ==
    \/ NextRuntime
    \/ \E a \in DOMAIN store : SelectAircraft(a)

SpecRT2 == InitRuntime2 /\ [][NextRuntime2]_vars

(***************************************************************************)
(* The runtime panel when an edited checklist has been saved.              *)
(***************************************************************************)
\* The store after ChecklistEditor._save_and_close wrote aircraft ac with
\* the items of its first stage replaced.
WithItems(st, ac, items) == (ac :> [st[ac] EXCEPT ![1].items = items]) @@ st

SetStore(w, st) == [w EXCEPT !.store = st]

\* "self.stage_cmb.setCurrentIndex(cur_stage_idx)": currentIndexChanged is
\* emitted when the index differs from the one _ac_changed left.
RestoreStage(w, idx) ==
    IF idx # w.idx /\ idx >= 1 /\ idx <= Len(w.stages)
    THEN StageChanged([w EXCEPT !.idx = idx], idx)
    ELSE w

\* _edit_ac once dlg.exec() returned Accepted.
EditAc(w, st) == RestoreStage(AcChanged(SetStore(w, st)), w.idx)

EditSaved(items) ==
    /\ curAc # ""
    /\ Becomes(EditAc(World, WithItems(store, curAc, items)), "edit", 0)
    /\ left' = NoLeft

\* Two aircraft with one-item first stages; an edit stores another one-item
\* first stage.
StoresEdit ==
    {("X" :> <<[name |-> "s1", items |-> i1], [name |-> "s2", items |-> Plain]>>) @@
     ("Y" :> <<[name |-> "s1", items |-> Plain]>>) : i1 \in ItemSeqs(1)}

InitEdit == InitRuntimeOn(StoresEdit)

NextEdit ==
    \/ NextRuntime2
    \/ \E items \in ItemSeqs(1) : EditSaved(items)

SpecEdit == InitEdit /\ [][NextEdit]_vars

(***************************************************************************)
(* The editor dialog as a whole: the stage list, the document self.data   *)
(* and the outline of the stage being edited.  An editor state is a record *)
(*   data   self.data["stages"]      names  the stage_list texts           *)
(*   row    stage_list.currentRow() + 1     cur  _cur_idx + 1              *)
(*   rows   item_list                                                      *)
(*   exc    an exception is propagating     raised  one was raised         *)
(***************************************************************************)
\* Largest number of stages of the edited document.
MaxStages == 2

\* Largest number of rows of an outline of the edited document.
MaxDocRows == 2

\* str.strip() on the texts in use: " " is blank, "b " and "n " end in a space.
Strip(t) ==
    CASE t = " " -> ""
      [] t = "b " -> "b"
      [] t = "n " -> "n"
      [] OTHER -> t

Placeholder == [text |-> "", level |-> 0, optional |-> FALSE]

\* An item stored as a bare string (the legacy form) and the test
\* "isinstance(txt, str)".
Bare(s) == [bare |-> s]
IsStr(it) == "bare" \in DOMAIN it

\* The item as the editor and the runtime list read it.
AsDict(it) == IF IsStr(it) THEN [text |-> it.bare, level |-> 0, optional |-> FALSE] ELSE it
AsDicts(items) == SeqOf([j \in 1..Len(items) |-> AsDict(items[j])], Len(items))

\* "items.append("")": the empty item a stage without items is given.
OrEmptyString(items) == IF items = <<>> THEN <<Bare("")>> ELSE items

\* The same with the default level for every row.
ExportNoLevel(rs) ==
    SeqOf([i \in 1..Len(rs) |->
             [text |-> Strip(rs[i].text), level |-> 0, optional |-> rs[i].checked]],
          Len(rs))

\* _TreeItemRow.export() of every row.
Export(rs) ==
    SeqOf([i \in 1..Len(rs) |->
             [text |-> Strip(rs[i].text), level |-> rs[i].level, optional |-> rs[i].checked]],
          Len(rs))

\* "[it for it in items if it["text"]]"
RECURSIVE WithText(_)
WithText(items) ==
    IF items = <<>>
    THEN <<>>
    ELSE IF Head(items).text # ""
         THEN <<Head(items)>> \o WithText(Tail(items))
         ELSE WithText(Tail(items))

OrPlaceholder(items) == IF items = <<>> THEN <<Placeholder>> ELSE items

\* The same without "or [{...}]".
CommitItemsBare(rs) == WithText(Export(rs))
CommitItems(rs) == OrPlaceholder(WithText(Export(rs)))

\* An index outside self.data["stages"] raises IndexError.
WriteItems(e, idx) ==
    IF idx \in 1..Len(e.data)
    THEN [e EXCEPT !.data[idx].items = CommitItems(e.rows)]
    ELSE [e EXCEPT !.exc = TRUE, !.raised = TRUE]

EdLoadStage(e, row) ==
    [e EXCEPT !.cur = row,
              !.data[row].items = OrEmptyString(@),
              !.rows = LoadRows(AsDicts(OrEmptyString(e.data[row].items)))]

EdStageChangedAfterWrite(e, row) == IF e.exc THEN e ELSE EdLoadStage(e, row)

EdStageChanged(e, row) ==
    IF row < 1
    THEN e
    ELSE EdStageChangedAfterWrite(IF e.cur # 0 THEN WriteItems(e, e.cur) ELSE e, row)

\* An exception that leaves a slot is reported and the emitter goes on.
Slot(e) == [e EXCEPT !.exc = FALSE]

\* stage_list.setCurrentRow(r): currentRowChanged is emitted on a change only.
SetCurrentRow(e, r) ==
    IF r = e.row THEN e ELSE Slot(EdStageChanged([e EXCEPT !.row = r], r))

StageNamesOfDoc(doc) == SeqOf([k \in 1..Len(doc) |-> doc[k].name], Len(doc))

DefaultDoc(doc) == IF doc = <<>> THEN <<[name |-> "s1", items |-> <<Bare("")>>]>> ELSE doc

\* ChecklistEditor.__init__ on the stored document; _stage_changed(0) is
\* called before _cur_idx exists and before the signals are connected.
OpenEditor(doc) ==
    EdStageChanged([data |-> DefaultDoc(doc), names |-> StageNamesOfDoc(DefaultDoc(doc)),
                    row |-> 1, cur |-> 0, rows |-> <<>>, exc |-> FALSE, raised |-> FALSE], 1)

AddStageAfterWrite(e, name) ==
    IF e.exc
    THEN Slot(e)
    ELSE SetCurrentRow([e EXCEPT !.data = Append(@, [name |-> name, items |-> <<Bare("")>>]),
                                 !.names = Append(@, name)],
                       Len(e.names) + 1)

AddStageOp(e, name) ==
    IF Strip(name) = "" THEN e ELSE AddStageAfterWrite(WriteItems(e, e.cur), Strip(name))

\* stage_list.takeItem(row): the current row moves to the next entry (the
\* previous one for the last entry) and currentRowChanged is emitted while
\* the taken entry is still counted; then the entry leaves the list.
TakeItemRemove(e, row, current) == [e EXCEPT !.names = RemoveAt(@, row), !.row = current]

TakeItem(e, row) ==
    IF row < Len(e.names)
    THEN TakeItemRemove(Slot(EdStageChanged([e EXCEPT !.row = row + 1], row + 1)), row, row)
    ELSE TakeItemRemove(Slot(EdStageChanged([e EXCEPT !.row = row - 1], row - 1)), row, row - 1)

\* "if self.stage_list.count(): self.stage_list.setCurrentRow(0)"
DelStageSelectFirst(e) == IF Len(e.names) > 0 THEN SetCurrentRow(e, 1) ELSE e

DelStagePop(e, row) == DelStageSelectFirst([e EXCEPT !.data = RemoveAt(@, row)])

\* The same without the "count() <= 1" guard.
DelStageOpUnguarded(e) == DelStagePop(TakeItem(e, e.row), e.row)
DelStageOp(e) == IF Len(e.names) <= 1 THEN e ELSE DelStagePop(TakeItem(e, e.row), e.row)

\* First entry of the stage list whose stripped text is empty (Len + 1: none).
RECURSIVE FirstBlank(_, _)
FirstBlank(names, i) ==
    IF i > Len(names) \/ Strip(names[i]) = "" THEN i ELSE FirstBlank(names, i + 1)

\* The name loop of _save_and_close stores the names before the first blank one.
SaveNames(e) ==
    IF e.exc
    THEN e
    ELSE [e EXCEPT !.data = SeqOf([k \in 1..Len(e.data) |->
                                     IF k < FirstBlank(e.names, 1)
                                     THEN [e.data[k] EXCEPT !.name = Strip(e.names[k])]
                                     ELSE e.data[k]],
                                  Len(e.data))]

\* The stage has an item whose text is not blank, in either stored form.
HasValidItem(items) == \E j \in 1..Len(items) : Strip(AsDict(items[j]).text) # ""

\* "any(i["text"].strip() for i in stage["items"])" from item j on: any()
\* stops at the first item with text; i["text"] of a bare string raises
\* TypeError.
RECURSIVE AnyText(_, _)
AnyText(items, j) ==
    IF j > Len(items) THEN "none"
    ELSE IF IsStr(items[j]) THEN "TypeError"
    ELSE IF Strip(items[j].text) # "" THEN "any"
    ELSE AnyText(items, j + 1)

\* The item loop of _save_and_close from stage k on: it ends at the first
\* stage whose test does not find an item.
RECURSIVE ItemCheck(_, _)
ItemCheck(doc, k) ==
    IF k > Len(doc) THEN "any"
    ELSE IF AnyText(doc[k].items, 1) = "any" THEN ItemCheck(doc, k + 1)
    ELSE AnyText(doc[k].items, 1)

SaveOutcome(e) ==
    IF e.exc THEN "raised"
    ELSE IF FirstBlank(e.names, 1) <= Len(e.names) THEN "EmptyStageName"
    ELSE IF ItemCheck(e.data, 1) = "TypeError" THEN "raised"
    ELSE IF ItemCheck(e.data, 1) = "none" THEN "NoValidItems"
    ELSE "ok"

SaveOp(e) == SaveNames(WriteItems(e, e.cur))

\* ChecklistManager.write / read: the document is stored under the aircraft.
MgrWrite(st, ac, doc) == (ac :> doc) @@ st
MgrRead(st, ac) == IF ac \in DOMAIN st THEN st[ac] ELSE <<>>

Ed == [data |-> data, names |-> stageList, row |-> stageRow, cur |-> edIdx, rows |-> rows,
       exc |-> FALSE, raised |-> FALSE]

EdBecomes(e) ==
    /\ data' = e.data
    /\ stageList' = e.names
    /\ stageRow' = e.row
    /\ edIdx' = e.cur
    /\ rows' = e.rows

DocStep(e, op, arg, outcome) ==
    /\ dlg = "open"
    /\ EdBecomes(e)
    /\ docLast' = [op |-> op, arg |-> arg, outcome |-> outcome, prev |-> ""]
    /\ UNCHANGED <<edLast, store, dlg, panelVars, atcVars, calls>>

Raised(e) == IF e.raised THEN "raised" ELSE "ok"

\* The user selects another entry of the stage list.
SelectStageRow(r) ==
    /\ r # stageRow
    /\ DocStep(SetCurrentRow(Ed, r), "select", r, Raised(SetCurrentRow(Ed, r)))

AddStage(name) ==
    /\ Len(stageList) < MaxStages
    /\ DocStep(AddStageOp(Ed, name), "addstage", name,
               IF Strip(name) = "" THEN "cancelled" ELSE Raised(AddStageOp(Ed, name)))

DelStage(yes) ==
    IF Len(stageList) > 1 /\ ~yes
    THEN DocStep(Ed, "delstage", stageRow, "declined")
    ELSE DocStep(DelStageOp(Ed), "delstage", stageRow,
                 IF Len(stageList) <= 1 THEN "LastStageProtected" ELSE Raised(DelStageOp(Ed)))

\* The user edits the text of an entry of the stage list in place.
RenameStage(i, name) ==
    /\ dlg = "open"
    /\ stageList[i] # name
    /\ stageList' = [stageList EXCEPT ![i] = name]
    /\ docLast' = [op |-> "rename", arg |-> i, outcome |-> "ok", prev |-> ""]
    /\ UNCHANGED <<rows, edLast, data, stageRow, edIdx, dlg, rtVars, atcVars, calls>>

\* A row action while the dialog is open.
RowStep(rs, op, idx) ==
    /\ dlg = "open"
    /\ rows' = rs
    /\ docLast' = [op |-> op, arg |-> idx, outcome |-> "ok", prev |-> ""]
    /\ UNCHANGED <<edLast, data, stageList, stageRow, edIdx, dlg, rtVars, atcVars, calls>>

\* The user types into the line edit of a row.
EditText(idx, t) ==
    /\ rows[idx].text # t
    /\ RowStep([rows EXCEPT ![idx].text = t], "text", idx)

AddAfterDoc(idx) ==
    /\ Len(rows) < MaxDocRows
    /\ RowStep(AddAfterRows(rows, idx), "add", idx)

RemoveDoc(idx) == RowStep(RemoveRows(rows, idx), "remove", idx)

ToggleOptionalDoc(idx) ==
    /\ rows[idx].enabled
    /\ RowStep(SetChecked(rows, idx, ~rows[idx].checked), "optional", idx)

SaveDone(e) ==
    /\ dlg = "open"
    /\ EdBecomes(e)
    /\ docLast' = [op |-> "save", arg |-> 0, outcome |-> SaveOutcome(e), prev |-> docLast.op]
    /\ store' = IF SaveOutcome(e) = "ok" THEN MgrWrite(store, "X", e.data) ELSE store
    /\ dlg' = IF SaveOutcome(e) = "ok" THEN "accepted" ELSE dlg
    /\ UNCHANGED <<edLast, panelVars, atcVars, calls>>

SaveAndClose == SaveDone(SaveOp(Ed))

NameInputs == {" ", "n "}
TextInputs == {" ", "b "}

\* The stored documents the dialog is opened on: none (a new aircraft), one
\* stage, and two stages.
StoredDocs ==
    {<<>>,
     <<[name |-> "s1", items |-> <<[text |-> "a", level |-> 0, optional |-> FALSE],
                                   [text |-> "", level |-> 1, optional |-> TRUE]>>]>>,
     <<[name |-> "s1", items |-> Plain],
       [name |-> "s2", items |-> <<[text |-> "b ", level |-> 0, optional |-> FALSE]>>]>>}

PanelIdle ==
    /\ curAc = "" /\ stageNames = <<>> /\ curIdx = 0
    /\ lastStage = "" /\ memory = <<>> /\ tree = <<>> /\ nextBtn = FALSE
    /\ rtLast = <<>> /\ left = <<>> /\ shown = {}

Opens(e) ==
    /\ data = e.data /\ stageList = e.names /\ stageRow = e.row /\ edIdx = e.cur
    /\ rows = e.rows

InitDoc ==
    /\ calls = <<>>
    /\ \E doc \in StoredDocs : store = ("X" :> doc) /\ Opens(OpenEditor(MgrRead(store, "X")))
    /\ edLast = NoOp
    /\ dlg = "open"
    /\ docLast = [op |-> "open", arg |-> 0, outcome |-> "ok", prev |-> ""]
    /\ PanelIdle
    /\ AtcIdle

NextDoc ==
    \/ \E r \in 1..Len(stageList) : SelectStageRow(r)
    \/ \E name \in NameInputs : AddStage(name)
    \/ \E yes \in BOOLEAN : DelStage(yes)
    \/ \E i \in 1..Len(stageList) : \E name \in NameInputs : RenameStage(i, name)
    \/ \E idx \in 1..Len(rows) : \E t \in TextInputs : EditText(idx, t)
    \/ SaveAndClose

SpecDoc == InitDoc /\ [][NextDoc]_vars

(***************************************************************************)
(* The editor dialog on one stored stage of up to MaxDocRows items, under   *)
(* the row edits and the save that commits the outline.                    *)
(***************************************************************************)
DocTexts == {"", "a", "b "}

DocItemSeqs ==
    UNION {{SeqOf([i \in 1..n |-> [text |-> t[i], level |-> l[i], optional |-> o[i]]], n) :
              t \in [1..n -> DocTexts], l \in LevelSeqs(n), o \in [1..n -> BOOLEAN]} :
           n \in 1..MaxDocRows}

StoredStages == {<<[name |-> "s1", items |-> i1]>> : i1 \in DocItemSeqs}

InitCommit ==
    /\ calls = <<>>
    /\ \E doc \in StoredStages : store = ("X" :> doc) /\ Opens(OpenEditor(MgrRead(store, "X")))
    /\ edLast = NoOp
    /\ dlg = "open"
    /\ docLast = [op |-> "open", arg |-> 0, outcome |-> "ok", prev |-> ""]
    /\ PanelIdle
    /\ AtcIdle

NextCommit ==
    \/ \E idx \in 1..Len(rows) : \E t \in TextInputs : EditText(idx, t)
    \/ \E idx \in 1..Len(rows) : AddAfterDoc(idx)
    \/ \E idx \in 1..Len(rows) : RemoveDoc(idx)
    \/ \E idx \in 1..Len(rows) : ToggleOptionalDoc(idx)
    \/ SaveAndClose

SpecCommit == InitCommit /\ [][NextCommit]_vars

(***************************************************************************)
(* The creation of an aircraft: ChecklistWidget._new_ac writes an empty    *)
(* document under the new name and opens the editor dialog on it; closing  *)
(* the dialog without saving removes the folder of the new aircraft.       *)
(***************************************************************************)
\* The names the user types for the new aircraft; "Y" exists already.
AcInputs == {" ", "X", "Y"}

NewAc(name) ==
    /\ dlg # "open"
    /\ IF Strip(name) = ""
       THEN /\ docLast' = [op |-> "new", arg |-> name, outcome |-> "cancelled", prev |-> ""]
            /\ UNCHANGED <<store, dlg, data, stageList, stageRow, edIdx, rows>>
       ELSE IF name \in DOMAIN store
       THEN /\ docLast' = [op |-> "new", arg |-> name, outcome |-> "exists", prev |-> ""]
            /\ UNCHANGED <<store, dlg, data, stageList, stageRow, edIdx, rows>>
       ELSE /\ store' = MgrWrite(store, name, <<>>)
            /\ EdBecomes(OpenEditor(MgrRead(MgrWrite(store, name, <<>>), name)))
            /\ dlg' = "open"
            /\ docLast' = [op |-> "new", arg |-> name, outcome |-> "ok", prev |-> ""]
    /\ UNCHANGED <<edLast, panelVars, atcVars, calls>>

\* ChecklistEditor.reject with is_new set: the folder of the aircraft goes.
Reject ==
    /\ dlg = "open"
    /\ store' = [ac \in DOMAIN store \ {"X"} |-> store[ac]]
    /\ dlg' = "rejected"
    /\ docLast' = [op |-> "reject", arg |-> 0, outcome |-> "ok", prev |-> ""]
    /\ UNCHANGED <<edLast, data, stageList, stageRow, edIdx, rows, panelVars, atcVars, calls>>

InitNew ==
    /\ calls = <<>>
    /\ store = ("Y" :> <<[name |-> "s1", items |-> <<[text |-> "a", level |-> 0, optional |-> FALSE]>>]>>)
    /\ data = <<>> /\ stageList = <<>> /\ stageRow = 0 /\ edIdx = 0 /\ rows = <<>>
    /\ dlg = ""
    /\ docLast = [op |-> "none", arg |-> 0, outcome |-> "ok", prev |-> ""]
    /\ edLast = NoOp
    /\ PanelIdle
    /\ AtcIdle

NextNew ==
    \/ \E name \in AcInputs : NewAc(name)
    \/ Reject
    \/ \E name \in NameInputs : AddStage(name)
    \/ \E i \in 1..Len(stageList) : \E name \in NameInputs : RenameStage(i, name)
    \/ \E idx \in 1..Len(rows) : \E t \in TextInputs : EditText(idx, t)
    \/ SaveAndClose

SpecNew == InitNew /\ [][NextNew]_vars

(***************************************************************************)
(* The editor dialog on a legacy document: every item of every stage is    *)
(* stored as a bare string.                                                *)
(***************************************************************************)
LegacyTexts == {"", "a"}

\* The item lists of a legacy stage.
LegacyItemSeqs ==
    UNION {{SeqOf(f, n) : f \in [1..n -> {Bare(t) : t \in LegacyTexts}]} : n \in 1..MaxDocRows}

\* Legacy documents of one stage and of two.
LegacyDocs ==
    {<<[name |-> "s1", items |-> i1]>> : i1 \in LegacyItemSeqs}
    \cup {<<[name |-> "s1", items |-> i1], [name |-> "s2", items |-> i2]>> :
             i1 \in LegacyItemSeqs, i2 \in LegacyItemSeqs}

InitLegacy ==
    /\ calls = <<>>
    /\ \E doc \in LegacyDocs : store = ("X" :> doc) /\ Opens(OpenEditor(MgrRead(store, "X")))
    /\ edLast = NoOp
    /\ dlg = "open"
    /\ docLast = [op |-> "open", arg |-> 0, outcome |-> "ok", prev |-> ""]
    /\ PanelIdle
    /\ AtcIdle

NextLegacy ==
    \/ \E r \in 1..Len(stageList) : SelectStageRow(r)
    \/ \E idx \in 1..Len(rows) : \E t \in TextInputs : EditText(idx, t)
    \/ SaveAndClose

SpecLegacy == InitLegacy /\ [][NextLegacy]_vars

(***************************************************************************)
(* The ATC template editor: a dialog opened by ATCWidget._new_tpl on an    *)
(* (aircraft, stage) pair with three empty input fields.                   *)
(***************************************************************************)
\* Largest number of templates stored in all.
MaxTemplates == 2

AtcRead(st, ac) == IF ac \in DOMAIN st THEN st[ac] ELSE <<>>

AtcWrite(st, ac, tpls) == (ac :> tpls) @@ st

\* The same over the templates of every stage.
AtcExistingNamesAnyStage(st, ac, stage) ==
    {AtcRead(st, ac)[k].name : k \in 1..Len(AtcRead(st, ac))}

\* The same without a look at the store.
AtcExistingNamesNone(st, ac, stage) == {}

\* "existing_names": the names of the stored templates of the stage.
AtcExistingNames(st, ac, stage) ==
    {AtcRead(st, ac)[k].name : k \in {j \in 1..Len(AtcRead(st, ac)) : AtcRead(st, ac)[j].stage = stage}}

AtcSaveOutcome(st, ed) ==
    IF Strip(ed.name) = "" THEN "EmptyName"
    ELSE IF Strip(ed.cn) = "" /\ Strip(ed.en) = "" THEN "EmptyContent"
    ELSE IF Strip(ed.name) \in AtcExistingNames(st, ed.ac, ed.stage) THEN "DuplicateName"
    ELSE "ok"

AtcTemplate(ed) ==
    [name |-> Strip(ed.name), stage |-> ed.stage, cn |-> Strip(ed.cn), en |-> Strip(ed.en)]

AtcSaved(st, ed) ==
    IF AtcSaveOutcome(st, ed) = "ok"
    THEN AtcWrite(st, ed.ac, Append(AtcRead(st, ed.ac), AtcTemplate(ed)))
    ELSE st

AtcCount(st) ==
    Len(AtcRead(st, "X")) + Len(AtcRead(st, "Y"))

AtcFrame == UNCHANGED <<rows, edLast, rtVars, docVars, calls>>

\* ATCWidget._new_tpl opens a dialog on the aircraft and stage on display.
AtcOpen(ac, stage) ==
    /\ atcEd.state = "accepted"
    /\ AtcCount(atc) < MaxTemplates
    /\ atcEd' = [ac |-> ac, stage |-> stage, name |-> "", cn |-> "", en |-> "", state |-> "open"]
    /\ atcLast' = [op |-> "open", outcome |-> "ok"]
    /\ atc' = atc
    /\ AtcFrame

\* The user changes one of the three input fields.
AtcType(field, t) ==
    /\ atcEd.state = "open"
    /\ atcEd[field] # t
    /\ atcEd' = [atcEd EXCEPT ![field] = t]
    /\ atcLast' = [op |-> "type", outcome |-> "ok"]
    /\ atc' = atc
    /\ AtcFrame

AtcSave ==
    /\ atcEd.state = "open"
    /\ atc' = AtcSaved(atc, atcEd)
    /\ atcEd' = [atcEd EXCEPT !.state = IF AtcSaveOutcome(atc, atcEd) = "ok" THEN "accepted" ELSE @]
    /\ atcLast' = [op |-> "save", outcome |-> AtcSaveOutcome(atc, atcEd)]
    /\ AtcFrame

AtcNameInputs == {"", " ", "n", "n ", "m"}
AtcTextInputs == {"", " ", "b "}
AtcStages == {"s1", "s2"}
AtcAircraft == {"X", "Y"}

AtcStores ==
    {<<>>,
     "X" :> <<[name |-> "n", stage |-> "s1", cn |-> "b", en |-> ""]>>}

InitAtc ==
    /\ calls = <<>>
    /\ atc \in AtcStores
    /\ \E ac \in AtcAircraft : \E stage \in AtcStages :
          atcEd = [ac |-> ac, stage |-> stage, name |-> "", cn |-> "", en |-> "", state |-> "open"]
    /\ atcLast = [op |-> "open", outcome |-> "ok"]
    /\ rows = <<>> /\ edLast = <<>>
    /\ DocIdle
    /\ RuntimeIdle

NextAtc ==
    \/ \E ac \in AtcAircraft : \E stage \in AtcStages : AtcOpen(ac, stage)
    \/ \E t \in AtcNameInputs : AtcType("name", t)
    \/ \E f \in {"cn", "en"} : \E t \in AtcTextInputs : AtcType(f, t)
    \/ AtcSave

SpecAtc == InitAtc /\ [][NextAtc]_vars

\* ATCWidget.load: "self.tpls", the stored templates of the stage on display.
AtcTpls(st, ac, stage) == SelectSeq(AtcRead(st, ac), LAMBDA t : t.stage = stage)

\* list.remove(e): the first element equal to e goes.
RECURSIVE RemoveFirst(_, _)
RemoveFirst(s, e) ==
    IF s = <<>> THEN <<>>
    ELSE IF Head(s) = e THEN Tail(s)
    ELSE <<Head(s)>> \o RemoveFirst(Tail(s), e)

\* ATCWidget._del on the aircraft and stage on display, with entry idx of the
\* combo box selected; the dialog is modal, so none is open.
AtcDel(ac, stage, idx, yes) ==
    /\ atcEd.state = "accepted"
    /\ IF AtcTpls(atc, ac, stage) = <<>>
       THEN atc' = atc /\ atcLast' = [op |-> "delete", outcome |-> "NoTemplate"]
       ELSE IF idx > Len(AtcTpls(atc, ac, stage))
       THEN atc' = atc /\ atcLast' = [op |-> "delete", outcome |-> "none"]
       ELSE IF ~yes
       THEN atc' = atc /\ atcLast' = [op |-> "delete", outcome |-> "declined"]
       ELSE /\ atc' = AtcWrite(atc, ac, RemoveFirst(AtcRead(atc, ac), AtcTpls(atc, ac, stage)[idx]))
            /\ atcLast' = [op |-> "delete", outcome |-> "ok"]
    /\ atcEd' = atcEd
    /\ AtcFrame

NextAtcDel ==
    \/ NextAtc
    \/ \E ac \in AtcAircraft : \E stage \in AtcStages : \E idx \in 1..MaxTemplates :
          \E yes \in BOOLEAN : AtcDel(ac, stage, idx, yes)

SpecAtcDel == InitAtc /\ [][NextAtcDel]_vars

(***************************************************************************)
(* The callbacks step by step.  A user action enters a handler; every      *)
(* signal a handler emits enters the connected slot before the emitting    *)
(* statement returns, so the slots in progress form a stack, calls.  One   *)
(* step is one statement of the innermost slot.                            *)
(***************************************************************************)
\* A slot in progress: its function, the row or node it runs on, its loop
\* variable, the value it carries (state of _cascade_optional, ok of
\* check_node, all_ok of _update_next_btn) and the statement it is at.
Frame(fn, at, pos, flag, pc) == [fn |-> fn, at |-> at, pos |-> pos, flag |-> flag, pc |-> pc]

Top == calls[Len(calls)]

Callers == SubSeq(calls, 1, Len(calls) - 1)

\* The slot in progress goes on as frame f.
Goes(f) == Append(Callers, f)

\* A loop that never moves on to its next index.
SameIndex(f) == f

\* "for i in range(...)": on to the next index.
NextIndex(f) == [f EXCEPT !.pos = @ + 1]

\* The user clicks the "optional" check box of a row: the box changes its
\* state and emits stateChanged, which enters _cascade_optional on the row.
Click(idx) ==
    /\ calls = <<>>
    /\ rows[idx].enabled
    /\ rows' = [rows EXCEPT ![idx].checked = ~@]
    /\ calls' = <<Frame("cascade_optional", idx, idx + 1, ~rows[idx].checked, "loop")>>
    /\ edLast' = [op |-> "optional", idx |-> idx, delta |-> 0, outcome |-> "ok", before |-> rows]
    /\ UNCHANGED <<rtVars, docVars, atcVars>>

InCascade == calls # <<>> /\ Top.fn = "cascade_optional"

\* "for i in range(idx + 1, self.lw.count())" has a row i, and that row does
\* not "break" the loop.
InLoop(rs, f) == f.pos <= Len(rs) /\ rs[f.pos].level > rs[f.at].level

\* The loop of _cascade_optional is over: past the last row, or "break".
CascadeReturn ==
    /\ InCascade /\ Top.pc = "loop"
    /\ ~InLoop(rows, Top)
    /\ calls' = Callers
    /\ UNCHANGED <<rows, edLast, rtVars, docVars, atcVars>>

\* "row.opt.setChecked(bool(state))" on a box in another state: the box
\* changes and emits stateChanged, which enters _cascade_optional on row i.
CascadeSetChecked ==
    /\ InCascade /\ Top.pc = "loop"
    /\ InLoop(rows, Top)
    /\ rows[Top.pos].checked # Top.flag
    /\ rows' = [rows EXCEPT ![Top.pos].checked = Top.flag]
    /\ calls' = Goes([Top EXCEPT !.pc = "enable"]) \o
                <<Frame("cascade_optional", Top.pos, Top.pos + 1, Top.flag, "loop")>>
    /\ UNCHANGED <<edLast, rtVars, docVars, atcVars>>

\* "row.opt.setEnabled(not state)", after a setChecked that emitted nothing
\* or after the slot it entered has returned.
CascadeSetEnabled ==
    /\ InCascade
    /\ IF Top.pc = "enable" THEN TRUE ELSE InLoop(rows, Top) /\ rows[Top.pos].checked = Top.flag
    /\ rows' = [rows EXCEPT ![Top.pos].enabled = ~Top.flag]
    /\ calls' = Goes(NextIndex([Top EXCEPT !.pc = "loop"]))
    /\ UNCHANGED <<edLast, rtVars, docVars, atcVars>>

CascadeStep == CascadeReturn \/ CascadeSetChecked \/ CascadeSetEnabled

\* The user selects stage j in stage_cmb: _stage_changed snapshots the check
\* marks of the stage it leaves, and _build_tree fills the tree with the
\* signals blocked, unblocks them and calls _update_next_btn.
BeginLoad(j) ==
    /\ calls = <<>>
    /\ j # curIdx /\ j <= Len(store[curAc])
    /\ memory' = SaveCurrentStageState([World EXCEPT !.idx = j], lastStage).mem
    /\ curIdx' = j
    /\ tree' = BuildNodes(store[curAc][j].items,
                          MemGet(memory', curAc, stageNames[j]), 1, (0 :> 0), <<>>)
    /\ calls' = <<Frame("build_tree", 0, 0, TRUE, "update"),
                  Frame("update_next_btn", 0, 1, TRUE, "loop")>>
    /\ rtLast' = [op |-> "stage", arg |-> j]
    /\ left' = [ac |-> curAc, idx |-> curIdx, checked |-> CheckVec(tree)]
    /\ shown' = shown \cup {<<curAc, j>>}
    /\ UNCHANGED <<store, curAc, stageNames, lastStage, nextBtn, edVars, docVars, atcVars>>

\* The children the loop of the innermost check_node (or the top-level loop
\* of _update_next_btn, at = 0) runs over.
Kids == ChildSeq(tree, Top.at)

InWalk == calls # <<>> /\ Top.fn \in {"update_next_btn", "check_node"} /\ Top.pc = "loop"

\* "ok &= check_node(node.child(i))": the call.
WalkCall ==
    /\ InWalk
    /\ Top.pos <= Len(Kids)
    /\ calls' = Append(calls, Frame("check_node", Kids[Top.pos], 1, TRUE, "loop"))
    /\ UNCHANGED <<edVars, rtVars, docVars, atcVars>>

\* check_node's test after its loop: an optional node that is checked under
\* an optional parent that is not.
MustUncheck(t, n) ==
    /\ t[n].optional /\ t[n].parent # 0
    /\ t[t[n].parent].optional /\ ~t[t[n].parent].checked /\ t[n].checked

\* "node.setCheckState(0, Qt.Unchecked)" with the signals live: the item
\* changes and the tree emits itemChanged, which enters _on_item_changed.
CheckNodeUncheck ==
    /\ InWalk /\ Top.fn = "check_node"
    /\ Top.pos > Len(Kids)
    /\ MustUncheck(tree, Top.at)
    /\ tree' = [tree EXCEPT ![Top.at].checked = FALSE]
    /\ calls' = Goes([Top EXCEPT !.pc = "return"]) \o
                <<Frame("on_item_changed", Top.at, 0, TRUE, "body")>>
    /\ UNCHANGED <<store, curAc, stageNames, curIdx, lastStage, memory, nextBtn, rtLast,
                   left, shown, edVars, docVars, atcVars>>

\* The body of _on_item_changed, under its QSignalBlocker: nothing it
\* changes enters a slot.
ItemChangedBody ==
    /\ calls # <<>> /\ Top.fn = "on_item_changed"
    /\ tree' = OnItemChanged(World, Top.at).tree
    /\ nextBtn' = OnItemChanged(World, Top.at).next
    /\ memory' = OnItemChanged(World, Top.at).mem
    /\ calls' = Callers
    /\ UNCHANGED <<store, curAc, stageNames, curIdx, lastStage, rtLast, left, shown,
                   edVars, docVars, atcVars>>

\* check_node's two "return" statements.
Returned(t, f) == IF t[f.at].optional THEN f.flag ELSE f.flag /\ t[f.at].checked

\* check_node returns: its caller takes the value into "ok &=" and goes on
\* to the next child.
CheckNodeReturn ==
    /\ calls # <<>> /\ Top.fn = "check_node"
    /\ IF Top.pc = "return" THEN TRUE ELSE Top.pos > Len(Kids) /\ ~MustUncheck(tree, Top.at)
    /\ calls' = Append(SubSeq(calls, 1, Len(calls) - 2),
                       NextIndex([calls[Len(calls) - 1] EXCEPT !.flag = @ /\ Returned(tree, Top)]))
    /\ UNCHANGED <<edVars, rtVars, docVars, atcVars>>

\* "self.next_btn.setEnabled(all_ok)"; _build_tree goes on to its loop with
\* apply_gray_for_optional_parents.
UpdateNextBtnReturn ==
    /\ InWalk /\ Top.fn = "update_next_btn"
    /\ Top.pos > Len(Kids)
    /\ nextBtn' = Top.flag
    /\ calls' = Append(SubSeq(calls, 1, Len(calls) - 2),
                       [calls[Len(calls) - 1] EXCEPT !.pc = "gray", !.pos = 1])
    /\ UNCHANGED <<store, curAc, stageNames, curIdx, lastStage, memory, tree, rtLast,
                   left, shown, edVars, docVars, atcVars>>

\* The two loops that end _build_tree and the functions they call on every
\* item, apply_gray_for_optional_parents and _update_color.
InPaint == calls # <<>> /\ Top.fn \in {"apply_gray", "update_color"}

InPaintLoop ==
    /\ calls # <<>>
    /\ \/ Top.fn = "build_tree" /\ Top.pc \in {"gray", "color"}
       \/ Top.fn \in {"apply_gray", "update_color"} /\ Top.pc = "loop"

\* The function a loop calls on a child.
Callee(f) ==
    IF f.fn = "build_tree"
    THEN (IF f.pc = "gray" THEN "apply_gray" ELSE "update_color")
    ELSE f.fn

\* "apply_gray_for_optional_parents(item.child(i))", "self._update_color(...)":
\* the call.
PaintCall ==
    /\ InPaintLoop
    /\ Top.pos <= Len(Kids)
    /\ calls' = Append(calls, Frame(Callee(Top), Kids[Top.pos], 1, TRUE, "set"))
    /\ UNCHANGED <<edVars, rtVars, docVars, atcVars>>

\* The brush the function sets on its item.
Brush(t, f) ==
    IF f.fn = "apply_gray"
    THEN (IF t[f.at].optional /\ ~t[f.at].checked THEN "gray" ELSE "black")
    ELSE (IF t[f.at].checkable THEN ColorOf(t[f.at]) ELSE "gray")

\* _update_color returns after the brush of an item that is not
\* user-checkable; otherwise the loop over the children follows.
AfterSet(t, f) == IF f.fn = "update_color" /\ ~t[f.at].checkable THEN "return" ELSE "loop"

\* "item.setForeground(0, ...)" with the brush the item has: no signal.
PaintSame ==
    /\ InPaint /\ Top.pc = "set"
    /\ tree[Top.at].color = Brush(tree, Top)
    /\ calls' = Goes([Top EXCEPT !.pc = AfterSet(tree, Top)])
    /\ UNCHANGED <<edVars, rtVars, docVars, atcVars>>

\* "item.setForeground(0, ...)" with another brush, the signals live: the
\* tree emits itemChanged, which enters _on_item_changed.
PaintEmit ==
    /\ InPaint /\ Top.pc = "set"
    /\ tree[Top.at].color # Brush(tree, Top)
    /\ tree' = [tree EXCEPT ![Top.at].color = Brush(tree, Top)]
    /\ calls' = Goes([Top EXCEPT !.pc = AfterSet(tree, Top)]) \o
                <<Frame("on_item_changed", Top.at, 0, TRUE, "body")>>
    /\ UNCHANGED <<store, curAc, stageNames, curIdx, lastStage, memory, nextBtn, rtLast,
                   left, shown, edVars, docVars, atcVars>>

\* The function returns; its caller goes on to the next item.
PaintReturn ==
    /\ InPaint
    /\ IF Top.pc = "loop" THEN Top.pos > Len(Kids) ELSE Top.pc = "return"
    /\ calls' = Append(SubSeq(calls, 1, Len(calls) - 2), NextIndex(calls[Len(calls) - 1]))
    /\ UNCHANGED <<edVars, rtVars, docVars, atcVars>>

\* The loop with apply_gray_for_optional_parents is over: on to the loop
\* with _update_color.
BuildTreeNext ==
    /\ calls # <<>> /\ Top.fn = "build_tree" /\ Top.pc = "gray"
    /\ Top.pos > Len(Kids)
    /\ calls' = Goes([Top EXCEPT !.pc = "color", !.pos = 1])
    /\ UNCHANGED <<edVars, rtVars, docVars, atcVars>>

\* _build_tree returns to _stage_changed, which sets _last_stage_name and
\* returns.
BuildTreeReturn ==
    /\ calls # <<>> /\ Top.fn = "build_tree" /\ Top.pc = "color"
    /\ Top.pos > Len(Kids)
    /\ lastStage' = SetLastStageName(World).last
    /\ tree' = Settle(World).tree
    /\ calls' = Callers
    /\ UNCHANGED <<store, curAc, stageNames, curIdx, memory, nextBtn, rtLast, left, shown,
                   edVars, docVars, atcVars>>

\* A step of the stage load outside _on_item_changed.
TraverseStep ==
    \/ WalkCall
    \/ CheckNodeUncheck
    \/ CheckNodeReturn
    \/ UpdateNextBtnReturn
    \/ PaintCall
    \/ PaintSame
    \/ PaintEmit
    \/ PaintReturn
    \/ BuildTreeNext
    \/ BuildTreeReturn

LoadStep == TraverseStep \/ ItemChangedBody

\* A click on an item of the tree, taken while no callback is in progress.
ToggleIdle(i) == calls = <<>> /\ Toggle(i)

\* An outline of the editor, or the panel on a checklist of the store.
InitSteps == InitEditor \/ InitRuntime

\* A step of the callback in progress.
CallbackStep == CascadeStep \/ LoadStep

NextSteps ==
    \/ \E idx \in 1..Len(rows) : Click(idx)
    \/ \E i \in 1..Len(tree) : ToggleIdle(i)
    \/ \E j \in 1..Len(stageNames) : BeginLoad(j)
    \/ CallbackStep

SpecSteps == InitSteps /\ [][NextSteps]_vars

\* _on_item_changed returns.  ItemChangedBody is the only step that takes an
\* on_item_changed frame off calls, and it can be taken whenever that frame
\* is the innermost.
HandlerReturns == calls # <<>> /\ Top.fn = "on_item_changed" /\ calls' = Callers

\* The GUI thread runs the slot it has entered: a callback in progress
\* takes its next step.
FairSteps ==
    /\ SpecSteps
    /\ WF_vars(CascadeStep)
    /\ WF_vars(TraverseStep)
    /\ WF_calls(HandlerReturns)

(***************************************************************************)
(* Properties of the editor outline.                                       *)
(***************************************************************************)
\* What the outline shows of a row: its level, the optional flag export()
\* would store (opt.isChecked()) and whether its optional box is locked.
Outline(rs) ==
    SeqOf([i \in 1..Len(rs) |->
             [level |-> rs[i].level, optional |-> rs[i].checked, locked |-> ~rs[i].enabled]],
          Len(rs))

\* C1: the first row has level 0 and no row is more than one level deeper
\* than the row before it, after any sequence of add / remove / indent.
C1_LevelInvariant ==
    /\ Len(rows) >= 1 => rows[1].level = 0
    /\ \A i \in 2..Len(rows) : rows[i].level <= rows[i - 1].level + 1

\* An accepted indent that moved a row together with its descendants.
C1_Witness ==
    /\ edLast.op = "indent" /\ edLast.outcome = "ok" /\ edLast.delta = 1
    /\ DescendantRun(edLast.before, edLast.idx, edLast.before[edLast.idx].level) # {}

\* C2 (as claimed): every row in the descendant run of an optional row is
\* optional and locked, in every state between two user actions.
C2_OptionalCascade ==
    \A i \in 1..Len(rows) :
        rows[i].checked =>
            \A j \in DescendantRun(rows, i, rows[i].level) :
                rows[j].checked /\ ~rows[j].enabled

\* C6 (as claimed): an indent rejected by the predecessor rule leaves every
\* row's level, optional flag and lock state as they were.
C6_RejectedJumpUnchanged ==
    (edLast.op = "indent" /\ edLast.outcome = "jump") =>
        Outline(rows) = Outline(edLast.before)

\* C7: an indent of the first row to any level other than 0 is rejected and
\* leaves every row's level, optional flag and lock state as they were.
C7_FirstRowIndentRejected ==
    (/\ edLast.op = "indent"
     /\ edLast.idx = 1
     /\ edLast.before[1].level + edLast.delta # 0) =>
        /\ edLast.outcome # "ok"
        /\ Outline(rows) = Outline(edLast.before)

\* The first row, optional and with a locked child, was asked one level deeper.
C7_Witness ==
    /\ edLast.op = "indent" /\ edLast.idx = 1 /\ edLast.delta = 1
    /\ edLast.outcome = "first"
    /\ Len(rows) >= 2 /\ rows[1].checked /\ ~rows[2].enabled

\* C8: remove on an outline of exactly one row changes nothing, and the
\* outline never has fewer than one row.
C8_SoleRowKept ==
    /\ Len(rows) >= 1
    /\ (edLast.op = "remove" /\ Len(edLast.before) = 1) => rows = edLast.before

\* Remove was pressed on the only row.
C8_Witness ==
    edLast.op = "remove" /\ edLast.outcome = "sole" /\ Len(rows) = 1

(***************************************************************************)
(* Properties of the runtime checklist.                                    *)
(***************************************************************************)
AllMandatoryChecked(t) == \A i \in 1..Len(t) : ~t[i].optional => t[i].checked

RECURSIVE IsAncestor(_, _, _)
IsAncestor(t, p, d) ==
    t[d].parent # 0 /\ (t[d].parent = p \/ IsAncestor(t, p, t[d].parent))

StageNamesOf(st) == UNION {{st[a][k].name : k \in 1..Len(st[a])} : a \in DOMAIN st}

\* C3: whenever a stage is displayed, the next-stage button is enabled if
\* and only if every non-optional node of the tree is checked; optional
\* nodes never count, and one unchecked non-optional node disables it.
C3_CompleteIffMandatoryChecked ==
    stageNames # <<>> => (nextBtn <=> AllMandatoryChecked(tree))

\* The user has just unchecked a non-optional node of a stage that also
\* holds an unchecked optional node, and the button went off.
C3_Witness ==
    /\ rtLast.op = "toggle"
    /\ ~tree[rtLast.arg].optional /\ ~tree[rtLast.arg].checked
    /\ \A i \in 1..Len(tree) : (i # rtLast.arg /\ ~tree[i].optional) => tree[i].checked
    /\ \E i \in 1..Len(tree) : tree[i].optional /\ ~tree[i].checked
    /\ ~nextBtn

\* C4: a click on next changes the current stage only when every
\* non-optional node of the displayed stage is checked, and then to the
\* next index exactly; on the last stage it changes nothing and never wraps
\* around to the first.
C4_AdvanceGated ==
    [][rtLast'.op = "next" =>
          /\ curIdx' # curIdx => (AllMandatoryChecked(tree) /\ curIdx' = curIdx + 1)
          /\ curIdx = Len(stageNames) => curIdx' = curIdx]_vars

\* next has moved the panel from the first stage to the second.
C4_Witness ==
    /\ rtLast.op = "next" /\ left.idx = 1 /\ curIdx = 2
    /\ \E i \in 1..Len(left.checked) : left.checked[i]

\* C5 (as claimed): right after the user unchecks an optional node, or
\* toggles a descendant of an unchecked optional node, that descendant is
\* unchecked.
C5_UncheckedOptionalHoldsDescendants ==
    \A p \in 1..Len(tree), d \in 1..Len(tree) :
        ( /\ tree[p].optional /\ ~tree[p].checked
          /\ IsAncestor(tree, p, d)
          /\ rtLast.op = "toggle" /\ rtLast.arg \in {p, d} ) => ~tree[d].checked

\* C9 (as claimed): selecting another stage and then the original stage
\* again shows the original stage with the same nodes checked as when it was
\* left, and a stage never shown before comes up with nothing checked.
C9_StageRoundTrip ==
    [][ /\ (rtLast'.op = "stage" /\ left.ac = curAc' /\ left.idx = curIdx')
            => CheckVec(tree') = left.checked
        /\ (rtLast'.op \in {"stage", "next"} /\ <<curAc', curIdx'>> \notin shown)
            => \A i \in 1..Len(tree') : ~tree'[i].checked ]_vars

\* C10 (as claimed): a switch from aircraft X to aircraft Y stores the
\* checked texts of the tree being left under (X, stage being left) and
\* leaves what the memory holds for Y, under every stage name, as it was.
C10_SwitchSavesUnderLeftAircraft ==
    [][rtLast'.op = "aircraft" =>
          /\ MemGet(memory', curAc, stageNames[curIdx]) = CheckedTexts(tree)
          /\ \A s \in StageNamesOf(store) :
                MemGet(memory', curAc', s) = MemGet(memory, curAc', s)]_vars

\* C11 (as claimed): when an edited checklist of the current aircraft has
\* been saved, the memory holds no checked text for any stage of that
\* aircraft, the stage shown has nothing checked, and what the memory holds
\* for every other aircraft is as before.
C11_EditSaveClearsAircraftMemory ==
    [][rtLast'.op = "edit" =>
          /\ \A s \in StageNamesOf(store') : MemGet(memory', curAc, s) = {}
          /\ \A i \in 1..Len(tree') : ~tree'[i].checked
          /\ \A a \in DOMAIN store \ {curAc} : \A s \in StageNamesOf(store) :
                MemGet(memory', a, s) = MemGet(memory, a, s)]_vars

\* C12: after a confirmed reset the memory holds no checked text for any
\* stage of the current aircraft, no node of the displayed tree is checked,
\* and what the memory holds for every other aircraft is as before.
C12_ResetClearsCurrentAircraft ==
    [][rtLast'.op = "reset" =>
          /\ \A s \in StageNamesOf(store') : MemGet(memory', curAc', s) = {}
          /\ \A i \in 1..Len(tree') : ~tree'[i].checked
          /\ \A a \in DOMAIN store \ {curAc} : \A s \in StageNamesOf(store) :
                MemGet(memory', a, s) = MemGet(memory, a, s)]_vars

\* A reset on an aircraft whose second stage had been shown, while the
\* memory keeps checked texts of another aircraft.
C12_Witness ==
    /\ rtLast.op = "reset" /\ <<curAc, 2>> \in shown
    /\ \E a \in DOMAIN memory \ {curAc} : \E s \in DOMAIN memory[a] : memory[a][s] # {}

\* C13: after complete-all every node of the displayed tree is checked and
\* the next-stage button is enabled, whatever was checked or locked before.
C13_CompleteAllChecksEverything ==
    rtLast.op = "complete" => (nextBtn /\ \A i \in 1..Len(tree) : tree[i].checked)

\* complete-all has acted on a tree with a non-optional node and a node
\* under an optional parent.
C13_Witness ==
    /\ rtLast.op = "complete"
    /\ \E i \in 1..Len(tree) : ~tree[i].optional
    /\ \E i \in 1..Len(tree) : tree[i].parent # 0 /\ tree[tree[i].parent].optional

\* The outline [A level 0 non-optional, B level 1 optional, C level 2 forced
\* optional and locked by B].
ScenarioABC(rs) ==
    /\ Len(rs) = 3
    /\ rs[1].level = 0 /\ rs[2].level = 1 /\ rs[3].level = 2
    /\ ~rs[1].checked
    /\ rs[2].checked /\ rs[2].enabled
    /\ rs[3].checked /\ ~rs[3].enabled

\* C14 (as claimed): in the outline [A, B optional, C forced by B], + on B
\* creates the new row at level 1, B's level, with optional set.
C14_InsertAfterOptionalParent ==
    (edLast.op = "add" /\ edLast.idx = 2 /\ ScenarioABC(edLast.before))
        => (rows[3].level = 1 /\ rows[3].checked)

\* C15 (as claimed): in a freshly loaded outline, removing an optional row
\* whose parent is not optional moves each of its descendants one level up
\* and leaves its direct children unlocked, and not optional where the
\* stored item was not.
C15_RemoveOptionalParent ==
    [][ ( /\ edLast.op = "load" /\ edLast'.op = "remove" /\ edLast'.outcome = "ok"
          /\ rows[edLast'.idx].checked
          /\ ParentBelow(rows, edLast'.idx, rows[edLast'.idx].level) # 0
          /\ ~rows[ParentBelow(rows, edLast'.idx, rows[edLast'.idx].level)].checked )
        => \A j \in DescendantRun(rows, edLast'.idx, rows[edLast'.idx].level) :
              /\ rows'[j - 1].level = rows[j].level - 1
              /\ rows[j].level = rows[edLast'.idx].level + 1
                    => ( /\ rows'[j - 1].enabled
                         /\ ~rows[j].optional => ~rows'[j - 1].checked ) ]_vars

(***************************************************************************)
(* Properties of the editor dialog.                                        *)
(***************************************************************************)
\* What a stored item sequence says of its nodes.
Triples(items) ==
    SeqOf([j \in 1..Len(items) |->
             [text |-> items[j].text, level |-> items[j].level, optional |-> items[j].optional]],
          Len(items))

\* First node at level 0, no node more than one level below its predecessor.
ItemsLevelOK(items) ==
    /\ items[1].level = 0
    /\ \A j \in 2..Len(items) : items[j].level <= items[j - 1].level + 1

\* Every node whose parent is optional is optional.
ItemsCascadeOK(items) ==
    \A j \in 1..Len(items) :
        (ParentBelow(items, j, items[j].level) # 0
           /\ items[ParentBelow(items, j, items[j].level)].optional) => items[j].optional

\* No text is empty or has surrounding white space.
ItemsTextsClean(items) ==
    \A j \in 1..Len(items) : items[j].text # "" /\ Strip(items[j].text) = items[j].text

\* The items of the first stage of the stored checklist of aircraft X.
StoredFirst(st) == MgrRead(st, "X")[1].items

\* C16 (as stated): a stored item sequence that satisfies the level and
\* cascade invariants, loaded into the editor and saved without an edit,
\* is read back as the identical sequence of (text, level, optional).
C16_RoundTrip ==
    [][(docLast.op = "open" /\ docLast'.op = "save"
          /\ ItemsLevelOK(StoredFirst(store)) /\ ItemsCascadeOK(StoredFirst(store))) =>
          Triples(StoredFirst(store')) = Triples(StoredFirst(store))]_vars

\* C16 (amended): a stored item sequence that satisfies the level and
\* cascade invariants and has no empty and no untrimmed text, loaded into
\* the editor and saved without an edit, is written and is read back as the
\* identical sequence of (text, level, optional).
C16_RoundTripCleanTexts ==
    [][(docLast.op = "open" /\ docLast'.op = "save"
          /\ ItemsLevelOK(StoredFirst(store)) /\ ItemsCascadeOK(StoredFirst(store))
          /\ ItemsTextsClean(StoredFirst(store))) =>
          /\ docLast'.outcome = "ok"
          /\ dlg' = "accepted"
          /\ data'[1].items = Triples(StoredFirst(store))
          /\ Triples(StoredFirst(store')) = Triples(StoredFirst(store))]_vars

\* A two-level outline with an optional child has been saved right after
\* the dialog opened on it.
C16_Witness ==
    /\ docLast.op = "save" /\ docLast.prev = "open" /\ docLast.outcome = "ok"
    /\ dlg = "accepted"
    /\ Len(StoredFirst(store)) = 2
    /\ StoredFirst(store)[2].level = 1
    /\ StoredFirst(store)[2].optional
    /\ ItemsTextsClean(StoredFirst(store))
\* Rows of the outline whose stripped text is not empty.
Kept(rs) == {i \in 1..Len(rs) : Strip(rs[i].text) # ""}

\* Position of kept row i among the kept rows.
Rank(rs, i) == Cardinality({k \in Kept(rs) : k <= i})

NodeOf(r) == [text |-> Strip(r.text), level |-> r.level, optional |-> r.checked]

\* C18: the item commit stores exactly the rows of the outline whose
\* stripped text is not empty, in their order, each with its stripped text,
\* its level and the state of its optional box; when no row is kept it
\* stores the single placeholder (text "", level 0, not optional); the
\* committed stage has at least one item.
C18_CommitKeepsNonEmptyRows ==
    [][(docLast'.op = "save" /\ docLast'.outcome # "raised") =>
          /\ Len(data'[edIdx].items) >= 1
          /\ IF Kept(rows) = {}
             THEN data'[edIdx].items = <<Placeholder>>
             ELSE /\ Len(data'[edIdx].items) = Cardinality(Kept(rows))
                  /\ \A i \in Kept(rows) : data'[edIdx].items[Rank(rows, i)] = NodeOf(rows[i])]_vars

\* A save has committed an outline of which one row was dropped and another
\* had its text stripped.
C18_Witness ==
    /\ docLast.op = "save"
    /\ Len(rows) = 2
    /\ Strip(rows[1].text) = ""
    /\ rows[2].text = "b "
    /\ data[edIdx].items = <<[text |-> "b", level |-> rows[2].level, optional |-> rows[2].checked]>>

\* C19: deleting the stage of a document that has one stage only is refused
\* (LastStageProtected) and changes nothing in the dialog or the store; the
\* document being edited always has at least one stage.
C19_LastStageProtected ==
    /\ [](Len(data) >= 1 /\ Len(stageList) = Len(data))
    /\ [][(docLast'.op = "delstage" /\ Len(data) = 1) =>
             /\ docLast'.outcome = "LastStageProtected"
             /\ UNCHANGED <<data, stageList, stageRow, edIdx, rows, store, dlg>>]_vars

\* The delete was refused on a one-stage document whose outline holds an
\* edit that is not committed yet.
C19_Witness ==
    /\ docLast.op = "delstage" /\ docLast.outcome = "LastStageProtected"
    /\ Len(data) = 1
    /\ rows[1].text = "b "
    /\ AsDict(data[1].items[1]).text # "b"

\* Some entry of the stage list is blank once stripped.
BlankStageName == \E i \in 1..Len(stageList) : Strip(stageList[i]) = ""

\* The items of stage k as the dialog presents them: the outline for the
\* selected stage, the document for the others.
PresentedItems(k) == IF k = stageRow THEN CommitItems(rows) ELSE data[k].items

\* Some stage has no item whose stripped text is not empty.
StageWithoutItem ==
    \E k \in 1..Len(stageList) :
        \A j \in 1..Len(PresentedItems(k)) : Strip(PresentedItems(k)[j].text) = ""

\* The document the dialog presents: the stripped names of the stage list
\* and the presented items.
EditedDocument ==
    SeqOf([k \in 1..Len(stageList) |-> [name |-> Strip(stageList[k]), items |-> PresentedItems(k)]],
          Len(stageList))

\* C17: a save with a blank stage name or with a stage that has no item of
\* non-empty text fails with EmptyStageName or NoValidItems (each only in
\* its own case), writes nothing to the store and leaves the dialog open;
\* any other save writes the whole edited document and closes the dialog
\* accepted.
C17_SaveAndClose ==
    [][docLast'.op = "save" =>
          IF BlankStageName \/ StageWithoutItem
          THEN /\ docLast'.outcome \in {"EmptyStageName", "NoValidItems"}
               /\ docLast'.outcome = "EmptyStageName" => BlankStageName
               /\ docLast'.outcome = "NoValidItems" => StageWithoutItem
               /\ store' = store
               /\ dlg' = "open"
          ELSE /\ docLast'.outcome = "ok"
               /\ dlg' = "accepted"
               /\ MgrRead(store', "X") = EditedDocument]_vars

(***************************************************************************)
(* Properties of the ATC template editor.                                  *)
(***************************************************************************)
\* The stored templates of the dialog's aircraft.
AtcOwn == AtcRead(atc, atcEd.ac)

\* C20: a template commit fails with EmptyName when the stripped name is
\* blank, otherwise with EmptyContent when both texts are blank, otherwise
\* with DuplicateName when a stored template of the same aircraft and stage
\* has that name; a failed commit leaves the stored templates as they are; a
\* successful one appends the one template (name, stage, cn, en) to those of
\* the aircraft and leaves every stored template as it is.
C20_TemplateCommit ==
    [][atcLast'.op = "save" =>
          /\ atcLast'.outcome =
                IF Strip(atcEd.name) = "" THEN "EmptyName"
                ELSE IF Strip(atcEd.cn) = "" /\ Strip(atcEd.en) = "" THEN "EmptyContent"
                ELSE IF \E k \in 1..Len(AtcOwn) :
                           AtcOwn[k].stage = atcEd.stage /\ AtcOwn[k].name = Strip(atcEd.name)
                     THEN "DuplicateName"
                     ELSE "ok"
          /\ atcLast'.outcome # "ok" => atc' = atc
          /\ atcLast'.outcome = "ok" =>
                /\ Len(AtcRead(atc', atcEd.ac)) = Len(AtcOwn) + 1
                /\ SubSeq(AtcRead(atc', atcEd.ac), 1, Len(AtcOwn)) = AtcOwn
                /\ AtcRead(atc', atcEd.ac)[Len(AtcOwn) + 1] =
                      [name |-> Strip(atcEd.name), stage |-> atcEd.stage,
                       cn |-> Strip(atcEd.cn), en |-> Strip(atcEd.en)]
                /\ \A a \in AtcAircraft \ {atcEd.ac} : AtcRead(atc', a) = AtcRead(atc, a)]_vars

\* A template has been stored under a name that another stage of the same
\* aircraft already uses.
C20_Witness ==
    /\ atcLast.op = "save" /\ atcLast.outcome = "ok"
    /\ Len(AtcOwn) >= 2
    /\ \E k \in 1..(Len(AtcOwn) - 1) :
          AtcOwn[k].name = AtcOwn[Len(AtcOwn)].name /\ AtcOwn[k].stage # AtcOwn[Len(AtcOwn)].stage

(***************************************************************************)
(* Properties of the single operations of the editor outline.              *)
(***************************************************************************)
\* C24: insertAfter on a row adds exactly one row with an empty text right
\* after it, leaves every other row as it was (text, level, optional flag,
\* optional box and its lock), and gives the new row the level of the row
\* that followed when that row was deeper than the row of the insert, the
\* level of the row of the insert otherwise.
C24_InsertAfter ==
    edLast.op = "add" =>
        /\ Len(rows) = Len(edLast.before) + 1
        /\ rows[edLast.idx + 1].text = ""
        /\ \A i \in 1..edLast.idx : rows[i] = edLast.before[i]
        /\ \A i \in (edLast.idx + 1)..Len(edLast.before) : rows[i + 1] = edLast.before[i]
        /\ rows[edLast.idx + 1].level =
              IF /\ edLast.idx < Len(edLast.before)
                 /\ edLast.before[edLast.idx + 1].level > edLast.before[edLast.idx].level
              THEN edLast.before[edLast.idx + 1].level
              ELSE edLast.before[edLast.idx].level

\* A row was inserted between a row and its deeper successor.
C24_Witness ==
    /\ edLast.op = "add"
    /\ edLast.idx < Len(edLast.before)
    /\ edLast.before[edLast.idx + 1].level > edLast.before[edLast.idx].level
    /\ rows[edLast.idx + 1].level = edLast.before[edLast.idx].level + 1

\* C25 (as claimed): the row created by insertAfter shows the optional
\* state that the optional box of the row of the insert showed at that
\* time, a toggled or forced state included.
C25_InsertInheritsShownOptional ==
    edLast.op = "add" => rows[edLast.idx + 1].checked = edLast.before[edLast.idx].checked

\* C26: remove on an outline of more than one row deletes exactly that row,
\* lowers by one (not below 0) the level of every row of its descendant
\* run, and leaves the text of every other row, the level of every row
\* outside the run and the order of the remaining rows as they were.
C26_RemoveFrame ==
    (edLast.op = "remove" /\ Len(edLast.before) > 1) =>
        /\ Len(rows) = Len(edLast.before) - 1
        /\ \A i \in 1..(edLast.idx - 1) :
              rows[i].text = edLast.before[i].text /\ rows[i].level = edLast.before[i].level
        /\ \A i \in (edLast.idx + 1)..Len(edLast.before) :
              /\ rows[i - 1].text = edLast.before[i].text
              /\ rows[i - 1].level =
                    IF i \in DescendantRun(edLast.before, edLast.idx, edLast.before[edLast.idx].level)
                    THEN Max(0, edLast.before[i].level - 1)
                    ELSE edLast.before[i].level

\* The middle row of three was removed: its child moved up one level and
\* took its place, the first row stayed.
C26_Witness ==
    /\ edLast.op = "remove" /\ edLast.idx = 2
    /\ Len(edLast.before) = 3
    /\ edLast.before[3].level = edLast.before[2].level + 1
    /\ rows[2].level = edLast.before[2].level

\* Row i lies in the run of rows that follow idx at a deeper level.
InRun(rs, idx, i) == i > idx /\ \A j \in (idx + 1)..i : rs[j].level > rs[idx].level

\* C27: an accepted indent by +1 or -1 changes by that amount (not below 0)
\* the level of the row and of every row of its descendant run, and leaves
\* the level of every other row and every text as they were.
C27_IndentFrame ==
    (edLast.op = "indent" /\ edLast.outcome = "ok") =>
        /\ Len(rows) = Len(edLast.before)
        /\ \A i \in 1..Len(rows) :
              /\ rows[i].text = edLast.before[i].text
              /\ rows[i].level =
                    IF i = edLast.idx \/ InRun(edLast.before, edLast.idx, i)
                    THEN Max(0, edLast.before[i].level + edLast.delta)
                    ELSE edLast.before[i].level

\* A row was moved one level up together with a descendant, a row behind
\* them stayed.
C27_Witness ==
    /\ edLast.op = "indent" /\ edLast.outcome = "ok" /\ edLast.delta = 1
    /\ edLast.idx = 2
    /\ Len(rows) = 3
    /\ rows[2].level = 1 /\ rows[3].level = 2

\* The parent of the row of the last action: the nearest row before it at a
\* lower level.
MovedParent == ParentBelow(rows, edLast.idx, rows[edLast.idx].level)

\* C28 (as claimed): after an accepted indent to a level >= 1 the row is
\* optional and locked when its new parent is optional; when the parent is
\* not optional the row is unlocked and as optional as it was before.
C28_IndentKeepsOptional ==
    (edLast.op = "indent" /\ edLast.outcome = "ok" /\ rows[edLast.idx].level >= 1) =>
        /\ MovedParent # 0
        /\ IF rows[MovedParent].checked
           THEN rows[edLast.idx].checked /\ ~rows[edLast.idx].enabled
           ELSE /\ rows[edLast.idx].enabled
                /\ rows[edLast.idx].checked = edLast.before[edLast.idx].checked

\* C28 (amended): after an accepted indent to a level >= 1 the row is
\* optional and locked when its new parent is optional; when the parent is
\* not optional the row is unlocked and not optional.
C28_IndentClearsUnderPlainParent ==
    (edLast.op = "indent" /\ edLast.outcome = "ok" /\ rows[edLast.idx].level >= 1) =>
        /\ MovedParent # 0
        /\ IF rows[MovedParent].checked
           THEN rows[edLast.idx].checked /\ ~rows[edLast.idx].enabled
           ELSE rows[edLast.idx].enabled /\ ~rows[edLast.idx].checked

\* An optional row was moved under a parent that is not optional.
C28_Witness ==
    /\ edLast.op = "indent" /\ edLast.outcome = "ok" /\ rows[edLast.idx].level >= 1
    /\ edLast.before[edLast.idx].checked
    /\ MovedParent # 0
    /\ ~rows[MovedParent].checked

\* C29: an accepted indent that brings a row to level 0 leaves it not
\* optional and unlocked.
C29_IndentToRootClears ==
    (edLast.op = "indent" /\ edLast.outcome = "ok" /\ rows[edLast.idx].level = 0) =>
        /\ ~rows[edLast.idx].checked
        /\ ~rows[edLast.idx].optional
        /\ rows[edLast.idx].enabled

\* A row that was optional and locked under an optional parent was brought
\* to level 0.
C29_Witness ==
    /\ edLast.op = "indent" /\ edLast.outcome = "ok" /\ rows[edLast.idx].level = 0
    /\ edLast.before[edLast.idx].checked
    /\ ~edLast.before[edLast.idx].enabled

\* No row at level 0 shows as optional.
RootsPlain == \A i \in 1..Len(rows) : rows[i].level = 0 => ~rows[i].checked

\* C30 (as claimed): when no row at level 0 is optional in the stage as
\* loaded, no row at level 0 is optional after any sequence of add, remove,
\* indent and optional toggle.
C30_RootsNeverOptional == RootsPlain

(***************************************************************************)
(* Properties of the documents in the store                                *)
(***************************************************************************)

\* The stage names of a document are pairwise distinct.
NamesDistinct(doc) ==
    \A i, j \in 1..Len(doc) : i # j => doc[i].name # doc[j].name

\* C22: a document the editor has written to the store has pairwise distinct
\* stage names, whatever stages were added, renamed and deleted before the
\* save.
C22_StageNamesDistinct ==
    (docLast.op = "save" /\ docLast.outcome = "ok") => NamesDistinct(MgrRead(store, "X"))

\* A stored document has a stage, and each of its stages has a name that is
\* not blank and an item whose text is not empty.
DocComplete(doc) ==
    /\ Len(doc) >= 1
    /\ \A k \in 1..Len(doc) : Strip(doc[k].name) # "" /\ HasValidItem(doc[k].items)

\* C23: in every reachable state every document in the store has at least
\* one stage, and each stage has a non-blank name and at least one item
\* with non-empty text.
C23_StoredDocsComplete == \A ac \in DOMAIN store : DocComplete(store[ac])

\* The document with every bare string replaced by its dict form.
DictDoc(doc) ==
    SeqOf([k \in 1..Len(doc) |-> [doc[k] EXCEPT !.items = AsDicts(@)]], Len(doc))

\* The dialog as it would stand had the document been stored in dict form.
DictForm(e) == [e EXCEPT !.data = DictDoc(@)]

\* C21: on a document of bare strings the dialog does what it does on the
\* same document in dict form (text s, level 0, not optional): a selected
\* stage loads the same outline, and a save ends the same way and leaves
\* the same document; no selection and no save raises.
C21_LegacyLikeDictForm ==
    [][/\ (docLast'.op = "select" /\ docLast'.arg \in 1..Len(stageList)) =>
             /\ docLast'.outcome = "ok"
             /\ rows' = SetCurrentRow(DictForm(Ed), docLast'.arg).rows
       /\ docLast'.op = "save" =>
             /\ docLast'.outcome = SaveOutcome(SaveOp(DictForm(Ed)))
             /\ DictDoc(data') = SaveOp(DictForm(Ed)).data
             /\ DictDoc(MgrRead(store', "X")) =
                   IF SaveOutcome(SaveOp(DictForm(Ed))) = "ok"
                   THEN SaveOp(DictForm(Ed)).data
                   ELSE DictDoc(MgrRead(store, "X"))]_vars

(***************************************************************************)
(* Properties of the optional cascade of the editor outline.               *)
(***************************************************************************)
\* The descendant run of the row of the last action, in the rows before it.
ToggledRun == DescendantRun(edLast.before, edLast.idx, edLast.before[edLast.idx].level)

\* C31: a click on the unlocked optional box of a row inverts the box, gives
\* its new value to the optional box of every row of the descendant run,
\* locks those rows exactly when the value is true, and leaves the optional
\* box and the lock of every row outside the run as they were.
C31_CascadeFrame ==
    edLast.op = "optional" =>
        /\ Len(rows) = Len(edLast.before)
        /\ rows[edLast.idx].checked = ~edLast.before[edLast.idx].checked
        /\ rows[edLast.idx].enabled = edLast.before[edLast.idx].enabled
        /\ \A i \in ToggledRun :
              /\ rows[i].checked = rows[edLast.idx].checked
              /\ rows[i].enabled = ~rows[edLast.idx].checked
        /\ \A i \in (1..Len(rows)) \ (ToggledRun \cup {edLast.idx}) :
              /\ rows[i].checked = edLast.before[i].checked
              /\ rows[i].enabled = edLast.before[i].enabled

\* The optional box of a row with a row in its run was set, and a row after
\* the run is not optional.
C31_Witness ==
    /\ edLast.op = "optional"
    /\ rows[edLast.idx].checked
    /\ ToggledRun # {}
    /\ \E i \in 1..Len(rows) : i > edLast.idx /\ i \notin ToggledRun /\ ~rows[i].checked

\* C32 (as claimed): after the optional box of a row was cleared, every row
\* of its descendant run is unlocked and as optional as it was before.
C32_ClearKeepsDescendants ==
    (edLast.op = "optional" /\ ~rows[edLast.idx].checked) =>
        \A i \in ToggledRun :
            rows[i].enabled /\ rows[i].checked = edLast.before[i].checked

\* C32 (amended): after the optional box of a row was cleared, every row of
\* its descendant run is unlocked and not optional.
C32_ClearClearsDescendants ==
    (edLast.op = "optional" /\ ~rows[edLast.idx].checked) =>
        \A i \in ToggledRun : rows[i].enabled /\ ~rows[i].checked

\* The box of a row was cleared whose run held an optional, locked row.
C32_Witness ==
    /\ edLast.op = "optional" /\ ~rows[edLast.idx].checked
    /\ \E i \in ToggledRun : edLast.before[i].checked /\ ~edLast.before[i].enabled

(***************************************************************************)
(* Properties of the item commit and of the stage delete of the dialog.    *)
(***************************************************************************)
\* C35: when the outline has its first row at level 0 and no row more than
\* one level deeper than the row before it, the items a save commits for
\* the stage have the same two properties, whatever the texts of the rows.
C35_CommitKeepsLevels ==
    [][(docLast'.op = "save" /\ docLast'.outcome # "raised" /\ ItemsLevelOK(rows)) =>
          ItemsLevelOK(data'[edIdx].items)]_vars

\* C36: a confirmed delete of the selected stage, in a dialog of two or more
\* stages whose current-stage index designates the selected stage, removes
\* that stage and its list entry and leaves the name and the items of every
\* other stage as they were; afterwards the current-stage index designates
\* the selected stage, which exists, and the outline shows its items.
C36_DelStageFrame ==
    [][(/\ docLast'.op = "delstage"
        /\ docLast'.outcome \notin {"declined", "LastStageProtected"}
        /\ edIdx = stageRow)
       => /\ stageList' = RemoveAt(stageList, stageRow)
          /\ Len(data') = Len(data) - 1
          /\ \A k \in 1..Len(data') :
                data'[k] = data[IF k < stageRow THEN k ELSE k + 1]
          /\ docLast'.outcome = "ok"
          /\ edIdx' = stageRow'
          /\ edIdx' \in 1..Len(data')
          /\ rows' = LoadRows(AsDicts(data'[edIdx'].items))]_vars

(***************************************************************************)
(* Properties of the stored ATC templates.                                 *)
(***************************************************************************)
\* No two stored templates of one aircraft and one stage have the same name.
AtcNamesUnique ==
    \A ac \in DOMAIN atc : \A k, l \in 1..Len(atc[ac]) :
        (k # l /\ atc[ac][k].stage = atc[ac][l].stage) => atc[ac][k].name # atc[ac][l].name

\* C34: after any sequence of template commits and deletions no two stored
\* templates of the same aircraft and stage have the same name; a commit
\* with content whose name is stored only under other stages of the
\* aircraft succeeds.
C34_NamesUniquePerStage ==
    /\ []AtcNamesUnique
    /\ [][(/\ atcLast'.op = "save"
           /\ Strip(atcEd.name) # ""
           /\ Strip(atcEd.cn) # "" \/ Strip(atcEd.en) # ""
           /\ \A k \in 1..Len(AtcOwn) :
                 AtcOwn[k].name = Strip(atcEd.name) => AtcOwn[k].stage # atcEd.stage)
          => atcLast'.outcome = "ok"]_vars

\* A commit has stored a name under a second stage of the aircraft.
C34_Witness ==
    /\ atcLast.op = "save" /\ atcLast.outcome = "ok"
    /\ \E k, l \in 1..Len(AtcOwn) :
          k # l /\ AtcOwn[k].name = AtcOwn[l].name /\ AtcOwn[k].stage # AtcOwn[l].stage

(***************************************************************************)
(* Properties of the runtime panel.                                        *)
(***************************************************************************)
\* Every node of the displayed tree whose parent is optional is optional.
TreeCascadeOK ==
    \A i \in 1..Len(tree) :
        (tree[i].parent # 0 /\ tree[tree[i].parent].optional) => tree[i].optional

\* C33: when the displayed stage satisfies the optional cascade, then after
\* every handled event no node of the tree is checked while one of its
\* optional ancestors is unchecked.
C33_NoCheckUnderUncheckedOptional ==
    TreeCascadeOK =>
        \A p \in 1..Len(tree), d \in 1..Len(tree) :
            (tree[p].optional /\ ~tree[p].checked /\ IsAncestor(tree, p, d)) => ~tree[d].checked

\* A stage was loaded whose memory holds the text of a node under an
\* unchecked optional parent: the text is that of a checked node elsewhere.
C33_Witness ==
    /\ TreeCascadeOK
    /\ rtLast.op = "stage"
    /\ \E c \in 1..Len(tree), d \in 1..Len(tree) :
          /\ tree[c].checked /\ tree[c].text = tree[d].text
          /\ ~tree[d].checked
          /\ tree[d].parent # 0
          /\ tree[tree[d].parent].optional /\ ~tree[tree[d].parent].checked

\* C38: no action of the runtime panel (toggle, complete-all, reset, next,
\* stage selection, aircraft selection) changes the stored document of any
\* aircraft.
C38_RuntimeLeavesStore ==
    [][rtLast'.op \in {"toggle", "complete", "reset", "next", "stage", "aircraft"} =>
          store' = store]_vars

\* C37: what is checked while one aircraft is displayed has no effect on
\* what another aircraft shows.  A run without any toggle and complete-all
\* shows no node checked at all, so by the claim every run shows no node
\* checked when an aircraft none of whose stages was displayed before is
\* selected.
C37_FirstDisplayOfAircraftUnchecked ==
    [][(rtLast'.op = "aircraft" /\ \A e \in shown : e[1] # curAc') =>
          \A i \in 1..Len(tree') : ~tree'[i].checked]_vars

(***************************************************************************)
(* Properties of the callbacks step by step.                               *)
(***************************************************************************)
\* The slot in progress was entered by a signal that a slot of the same
\* kind emitted: _cascade_optional from the setChecked of _cascade_optional.
CascadeReentered ==
    /\ Len(calls) >= 2
    /\ Top.fn = "cascade_optional" /\ calls[Len(calls) - 1].fn = "cascade_optional"

\* _on_item_changed was entered from check_node's auto-uncheck while
\* _build_tree loads a stage.
HandlerReentered ==
    /\ Len(calls) >= 4
    /\ calls[1].fn = "build_tree" /\ calls[2].fn = "update_next_btn"
    /\ calls[Len(calls) - 1].fn = "check_node" /\ Top.fn = "on_item_changed"

\* Once the cascade a click started has returned, the outline is the one
\* SetChecked computes in one step.
CascadeAgrees ==
    (calls = <<>> /\ edLast # <<>> /\ edLast.op = "optional") =>
        rows = SetChecked(edLast.before, edLast.idx, ~edLast.before[edLast.idx].checked)

\* C39: every user action is handled in finitely many callback steps and
\* then returns control: whenever a callback is in progress, the optional
\* cascade of the editor and the stage load of the runtime panel with its
\* auto-uncheck included, the event loop gets control back.
C39_CallbacksReturn == (calls # <<>>) ~> (calls = <<>>)

\* A stage load in which check_node, two levels down, unchecked a node and
\* so entered _on_item_changed.
C39_Witness == HandlerReentered /\ Len(calls) >= 5
====
